---- MODULE Spec2Model ----
(***************************************************************************)
(* Model of the AFL language server (server/src): the AST cache and the    *)
(* symbol tables of symbolTable.ts, the document handlers and the debounce *)
(* timer of server.ts, and the function-call spacing rule of               *)
(* rules/functions.ts.                                                     *)
(***************************************************************************)
EXTENDS Integers, Sequences, FiniteSets, TLC

VARIABLES
    documents,            \* server.ts:44   TextDocuments: uri -> open document
    astMap,               \* symbolTable.ts:8   uri -> cached AST
    symbolTable,          \* symbolTable.ts:6   name -> Location
    symbolInfoMap,        \* symbolTable.ts:7   name -> info text
    updateSymbolTimeout,  \* server.ts:112  handle of the last timer set, or null
    timers,               \* the event loop's pending timeouts (setTimeout/clearTimeout)
    last,                 \* the handler that ran last: its event and what it returned
    text,                 \* the text handed to checkFunctionSpaces
    diagnostics,          \* what checkFunctionSpaces returned for it
    lintDone,             \* whether checkFunctionSpaces has returned
    isInCommentBlock,     \* functions.ts:16  the flag as the last call left it
    flagBefore,           \* ... and as the call before the last had left it
    firstCall,            \* the text and the result of the first call
    files,                \* the file system: path -> content of the file
    callStack             \* the calls of the line-based analyzeText in progress

vars == <<documents, astMap, symbolTable, symbolInfoMap, updateSymbolTimeout,
          timers, last, text, diagnostics, lintDone, isInCommentBlock, flagBefore,
          firstCall, files, callStack>>

serverVars == <<documents, astMap, symbolTable, symbolInfoMap, updateSymbolTimeout,
                timers, last>>

lintVars == <<text, diagnostics, lintDone, isInCommentBlock, flagBefore,
             firstCall>>

includeVars == <<files, callStack>>

-----------------------------------------------------------------------------
(* Bounds of the model. *)

\* Timeout objects that can be alive at once (pending, or held by the handle).
MaxTimers == 3

\* Pieces a linted text is put together from, for texts with comments and
\* strings and for texts of calls.
MaxCommentPieces == 5
MaxCallPieces == 4

\* Pieces of the first text of a run of several lint calls.
MaxCallsPieces == 3

\* Pieces of the text a quick fix is asked for.
MaxFixPieces == 3

\* Pieces of the line a word is looked up in.
MaxWordPieces == 4

\* Pieces of the line whose string literals are stripped.
MaxStripPieces == 4

\* Lines of the file a and of the file b that the line-based indexer reads,
\* and the calls of it that the engine's call stack holds at once (more than
\* there are files): the next call exhausts the stack.
MaxFileLines == 2
MaxIncludedLines == 1
MaxIncludeDepth == 3

-----------------------------------------------------------------------------
(* Maps (JavaScript Map): functions whose domain is the set of keys present. *)

EmptyMap == << >>

MapHas(m, k) == k \in DOMAIN m

MapSet(m, k, v) == (k :> v) @@ m

MapDelete(m, k) == [x \in (DOMAIN m) \ {k} |-> m[x]]

-----------------------------------------------------------------------------
(* Documents and their texts. *)

URIs == {"file:///a.afl", "file:///b.afl"}

LanguageIds == {"afl", "plaintext"}

\* A text is the sequence of its characters.
\* "var a;"
TextVarA == <<"v", "a", "r", " ", "a", ";">>
\* "function f(x) {\n  var a;\n}"
TextFunc ==
    <<"f", "u", "n", "c", "t", "i", "o", "n", " ", "f", "(", "x", ")", " ", "{", "\n">>
    \o <<" ", " ", "v", "a", "r", " ", "a", ";", "\n">>
    \o <<"}">>
\* "var a = ;", which the parser rejects
TextBad == <<"v", "a", "r", " ", "a", " ", "=", " ", ";">>

Texts == {TextVarA, TextFunc, TextBad}

\* "var a, x;\nvar a;"
TextVars == <<"v", "a", "r", " ", "a", ",", " ", "x", ";", "\n">>
            \o <<"v", "a", "r", " ", "a", ";">>

\* undefined / null, as a record so that it compares with every node
NoAst == [type |-> "null"]

Pos(l, c) == [line |-> l, column |-> c]

\* an Identifier node with acorn's locations: 1-based line, 0-based column
Identifier(name, l, c) ==
    [type |-> "Identifier", name |-> name,
     loc |-> [start |-> Pos(l, c), end |-> Pos(l, c + Len(name))]]

VariableDeclaration(ids) ==
    [type |-> "VariableDeclaration",
     declarations |-> [i \in DOMAIN ids |-> [type |-> "VariableDeclarator", id |-> ids[i]]]]

FunctionDeclaration(id, params, body, start, end) ==
    [type |-> "FunctionDeclaration", id |-> id, params |-> params, body |-> body,
     loc |-> [start |-> start, end |-> end]]

Program(body) == [type |-> "Program", body |-> body]

\* The parser on a text of calls.  Such a text has names of the letters f
\* and g, parentheses, blanks and line breaks; it is parsed as acorn parses
\* it, which the AFL plugin extends: a statement is an expression, an
\* expression is a name or an expression in parentheses followed by any
\* number of argument lists, and an argument list holds at most one
\* expression since the text has no comma.
NameChars == {"f", "g"}
CallChars == NameChars \cup {"(", ")", " ", "\n"}

RECURSIVE SkipBlank(_, _)
\* the offset of the token at or behind offset p
SkipBlank(t, p) ==
    IF p < Len(t) /\ t[p + 1] \in {" ", "\n"} THEN SkipBlank(t, p + 1) ELSE p

RECURSIVE NameEnd(_, _)
\* the offset behind the name that starts at offset p
NameEnd(t, p) ==
    IF p < Len(t) /\ t[p + 1] \in NameChars THEN NameEnd(t, p + 1) ELSE p

\* acorn's location of offset p: the line counted from 1, the column from 0
LocAt(t, p) ==
    LET breaks == {i \in 1..p : t[i] = "\n"}
        lineStart == IF breaks = {} THEN 0
                     ELSE CHOOSE i \in breaks : \A j \in breaks : j <= i
    IN  Pos(1 + Cardinality(breaks), p - lineStart)

CallExpression(callee, arguments, from, to) ==
    [type |-> "CallExpression", callee |-> callee, arguments |-> arguments,
     loc |-> [start |-> from, end |-> to]]

\* a node parsed from the tokens between the offsets from and to; where the
\* parser raises a SyntaxError the result is [ok |-> FALSE]
Parsed(node, from, to) == [ok |-> TRUE, node |-> node, start |-> from, end |-> to]

RECURSIVE parseExprSubscripts(_, _)
RECURSIVE parseSubscripts(_, _, _, _)

\* acorn parseExprAtom at the token of offset p: a name, or an expression in
\* parentheses, whose node is the expression's; anything else is unexpected
parseExprAtom(t, p) ==
    CASE p < Len(t) /\ t[p + 1] \in NameChars ->
           Parsed(Identifier(SubSeq(t, p + 1, NameEnd(t, p)),
                             LocAt(t, p).line, LocAt(t, p).column),
                  p, NameEnd(t, p))
      [] p < Len(t) /\ t[p + 1] = "(" ->
           LET inner == parseExprSubscripts(t, SkipBlank(t, p + 1))
               close == IF inner.ok THEN SkipBlank(t, inner.end) ELSE Len(t)
           IN  IF inner.ok /\ close < Len(t) /\ t[close + 1] = ")"
               THEN Parsed(inner.node, p, close + 1)
               ELSE [ok |-> FALSE]
      [] OTHER -> [ok |-> FALSE]

\* acorn parseSubscripts: each '(' behind the expression, on whatever line,
\* makes it the callee of a call
parseSubscripts(t, base, from, to) ==
    LET open == SkipBlank(t, to)
    IN  IF open < Len(t) /\ t[open + 1] = "("
        THEN LET first == SkipBlank(t, open + 1)
                 arg == parseExprSubscripts(t, first)
                 close == IF arg.ok THEN SkipBlank(t, arg.end) ELSE Len(t)
             IN  IF first < Len(t) /\ t[first + 1] = ")"
                 THEN parseSubscripts(t, CallExpression(base, << >>, LocAt(t, from),
                                                        LocAt(t, first + 1)),
                                      from, first + 1)
                 ELSE IF arg.ok /\ close < Len(t) /\ t[close + 1] = ")"
                 THEN parseSubscripts(t, CallExpression(base, <<arg.node>>, LocAt(t, from),
                                                        LocAt(t, close + 1)),
                                      from, close + 1)
                 ELSE [ok |-> FALSE]
        ELSE Parsed(base, from, to)

\* acorn parseExprSubscripts at the token of offset p
parseExprSubscripts(t, p) ==
    LET atom == parseExprAtom(t, p)
    IN  IF atom.ok THEN parseSubscripts(t, atom.node, atom.start, atom.end) ELSE [ok |-> FALSE]

RECURSIVE parseTopLevel(_, _)
\* acorn parseTopLevel from offset p on: expression statements, each ended by
\* the end of the text or by a line break before the next token
parseTopLevel(t, p) ==
    LET start == SkipBlank(t, p)
        expr == parseExprSubscripts(t, start)
        next == IF expr.ok THEN SkipBlank(t, expr.end) ELSE Len(t)
        rest == parseTopLevel(t, next)
    IN  IF start = Len(t) THEN [ok |-> TRUE, body |-> << >>]
        ELSE IF /\ expr.ok
                /\ next = Len(t) \/ \E i \in (expr.end + 1)..next : t[i] = "\n"
                /\ rest.ok
        THEN [ok |-> TRUE,
              body |-> << [type |-> "ExpressionStatement", expression |-> expr.node,
                           loc |-> [start |-> LocAt(t, expr.start),
                                    end |-> LocAt(t, expr.end)]] >> \o rest.body]
        ELSE [ok |-> FALSE]

\* util.ts getAST: the parser's result on each text of the model, null when
\* the parser throws.
getAST(t) ==
    CASE t = TextVarA ->
           Program(<<VariableDeclaration(<<Identifier(<<"a">>, 1, 4)>>)>>)
      [] t = TextFunc ->
           Program(<<FunctionDeclaration(Identifier(<<"f">>, 1, 9),
                                         <<Identifier(<<"x">>, 1, 11)>>,
                                         <<VariableDeclaration(<<Identifier(<<"a">>, 2, 6)>>)>>,
                                         Pos(1, 0), Pos(3, 1))>>)
      [] t = TextVars ->
           Program(<<VariableDeclaration(<<Identifier(<<"a">>, 1, 4),
                                           Identifier(<<"x">>, 1, 7)>>),
                     VariableDeclaration(<<Identifier(<<"a">>, 2, 4)>>)>>)
      [] \A i \in DOMAIN t : t[i] \in CallChars ->
           IF parseTopLevel(t, 0).ok THEN Program(parseTopLevel(t, 0).body) ELSE NoAst
      [] OTHER -> NoAst

-----------------------------------------------------------------------------
(* symbolTable.ts: the AST-based indexer. *)

Location(uri, sl, sc, el, ec) ==
    [uri |-> uri,
     range |-> [start |-> [line |-> sl, character |-> sc],
                end |-> [line |-> el, character |-> ec]]]

\* `Identifier used at line ${node.loc.start.line}`
InfoText(l) == <<"Identifier used at line ", l>>

RECURSIVE analyzeNode(_, _)
RECURSIVE analyzeNodes(_, _)

\* the forEach loops of analyzeNode: the infos of each node, in order
analyzeNodes(nodes, uri) ==
    IF nodes = << >> THEN << >>
    ELSE analyzeNode(Head(nodes), uri) \o analyzeNodes(Tail(nodes), uri)

\* an analyzeNode that stops at the function's name
analyzeNodeShallow(node, uri) ==
    CASE node.type = "FunctionDeclaration" /\ node.id # NoAst ->
           << [name |-> node.id.name,
               loc |-> Location(uri, node.id.loc.start.line - 1, node.id.loc.start.column,
                                node.id.loc.end.line - 1, node.id.loc.end.column),
               info |-> InfoText(node.id.loc.start.line)] >>
      [] node.type = "VariableDeclaration" ->
           analyzeNodes([i \in DOMAIN node.declarations |-> node.declarations[i].id], uri)
      [] node.type = "Identifier" ->
           << [name |-> node.name,
               loc |-> Location(uri, node.loc.start.line - 1, node.loc.start.column,
                                node.loc.end.line - 1, node.loc.end.column),
               info |-> InfoText(node.loc.start.line)] >>
      [] OTHER -> << >>

\* symbolTable.ts analyzeNode: the SymbolInfo records of one node
analyzeNode(node, uri) ==
    CASE node.type = "FunctionDeclaration" /\ node.id # NoAst ->
           analyzeNode(node.id, uri)
           \o analyzeNodes(node.body, uri)
           \o analyzeNodes(node.params, uri)
      [] node.type = "VariableDeclaration" ->
           analyzeNodes([i \in DOMAIN node.declarations |-> node.declarations[i].id], uri)
      [] node.type = "Identifier" ->
           << [name |-> node.name,
               loc |-> Location(uri, node.loc.start.line - 1, node.loc.start.column,
                                node.loc.end.line - 1, node.loc.end.column),
               info |-> InfoText(node.loc.start.line)] >>
      [] OTHER -> << >>

\* the nodes analyzeText hands to processNode: the program's body, or the
\* node itself when it is not a Program
TopLevelNodes(ast) == IF ast.type = "Program" THEN ast.body ELSE <<ast>>

RECURSIVE SetAll(_, _, _)
\* table.set(info.name, info[field]) for each info in order: a later one wins
SetAll(m, infos, field) ==
    IF infos = << >> THEN m
    ELSE SetAll(MapSet(m, Head(infos).name, Head(infos)[field]), Tail(infos), field)

\* symbolTable.ts processNode over every top-level node: the pass's table
processNodes(ast, uri, table) ==
    SetAll(table, analyzeNodes(TopLevelNodes(ast), uri), "loc")

\* an info map in which a name keeps the info it has
processNodesInfoKeeping(ast, uri, infoMap) ==
    [name \in DOMAIN infoMap
               \cup DOMAIN SetAll(EmptyMap, analyzeNodes(TopLevelNodes(ast), uri), "info")
        |-> IF name \in DOMAIN infoMap THEN infoMap[name]
            ELSE SetAll(EmptyMap, analyzeNodes(TopLevelNodes(ast), uri), "info")[name]]

\* ... and what the same calls write into symbolInfoMap
processNodesInfo(ast, uri, infoMap) ==
    SetAll(infoMap, analyzeNodes(TopLevelNodes(ast), uri), "info")

CachedAst(uri) == IF MapHas(astMap, uri) THEN astMap[uri] ELSE NoAst

\* analyzeText lines 13-18: the cached AST, reparsed when there is none or
\* when clearCache is set
\* a pass that ignores the cache and parses the text it is given
AstAlwaysReparsed(cached, t, clearCache) == getAST(t)

AstForPass(cached, t, clearCache) ==
    IF cached = NoAst \/ clearCache THEN getAST(t) ELSE cached

\* a pass that stores whatever the parser returned, null included
CacheAlways(ast, uri) == MapSet(astMap, uri, ast)

\* analyzeText lines 21-26: a parsed AST is cached, a failure leaves the map
CacheAfterPass(ast, uri) ==
    IF ast # NoAst THEN MapSet(astMap, uri, ast) ELSE astMap

\* analyzeText: the table it returns
analyzeText(t, uri, clearCache) ==
    LET ast == AstForPass(CachedAst(uri), t, clearCache)
    IN  IF ast = NoAst THEN EmptyMap ELSE processNodes(ast, uri, EmptyMap)

\* the Location.create/info writes analyzeText makes to symbolInfoMap
InfoAfterPass(t, uri, clearCache) ==
    LET ast == AstForPass(CachedAst(uri), t, clearCache)
    IN  IF ast = NoAst THEN symbolInfoMap ELSE processNodesInfo(ast, uri, symbolInfoMap)

\* a merge in which an entry already in the global table stays
MergeKeepingOld(global, symbols) ==
    [k \in DOMAIN global \cup DOMAIN symbols |->
        IF k \in DOMAIN global THEN global[k] ELSE symbols[k]]

\* server.ts updateSymbolsForDocument's loop: every entry of the pass's table
\* is written into the global table
MergeSymbols(global, symbols) ==
    [k \in DOMAIN global \cup DOMAIN symbols |->
        IF k \in DOMAIN symbols THEN symbols[k] ELSE global[k]]

\* an update that makes the pass's table the global table
updateSymbolsReplacing(uri, t, clearCache) ==
    /\ astMap' = CacheAfterPass(AstForPass(CachedAst(uri), t, clearCache), uri)
    /\ symbolInfoMap' = InfoAfterPass(t, uri, clearCache)
    /\ symbolTable' = analyzeText(t, uri, clearCache)

\* server.ts updateSymbolsForDocument
updateSymbolsForDocument(uri, t, clearCache) ==
    /\ astMap' = CacheAfterPass(AstForPass(CachedAst(uri), t, clearCache), uri)
    /\ symbolInfoMap' = InfoAfterPass(t, uri, clearCache)
    /\ symbolTable' = MergeSymbols(symbolTable, analyzeText(t, uri, clearCache))

-----------------------------------------------------------------------------
(* rules/functions.ts: the function-call spacing rule.  A text is a        *)
(* sequence of characters; columns and line numbers are 0-based as in the  *)
(* code, so At(line, i) is line[i] of the code.                            *)

Letters == {"a", "c", "d", "e", "f", "g", "i", "n", "o", "r", "t", "u", "v", "x"}
Digits == {"2"}

IsIdentStart(c) == c \in Letters \cup {"_"}       \* [A-Za-z_]
IsWordChar(c) == c \in Letters \cup Digits \cup {"_"}   \* [A-Za-z0-9_], \w
IsSpace(c) == c \in {" ", "\t"}                    \* \s within a line

At(line, i) == line[i + 1]

\* line.slice(from, to)
Slice(line, from, to) == SubSeq(line, from + 1, to)

\* line.indexOf(pat, from) for a pattern of characters; -1 when absent
RECURSIVE IndexOfFrom(_, _, _)
IndexOfFrom(line, pat, from) ==
    IF from + Len(pat) > Len(line) THEN -1
    ELSE IF Slice(line, from, from + Len(pat)) = pat THEN from
    ELSE IndexOfFrom(line, pat, from + 1)

Includes(line, pat) == IndexOfFrom(line, pat, 0) # -1

\* text.split(/\r?\n/) for a text without carriage returns
RECURSIVE SplitLines(_)
SplitLines(t) ==
    LET nl == IndexOfFrom(t, <<"\n">>, 0)
    IN  IF nl = -1 THEN <<t>>
        ELSE <<Slice(t, 0, nl)>> \o SplitLines(Slice(t, nl + 1, Len(t)))

\* /^\s*\/\//.test(line)
RECURSIVE IsLineComment(_)
IsLineComment(line) ==
    IF Len(line) < 2 THEN FALSE
    ELSE IF IsSpace(line[1]) THEN IsLineComment(Tail(line))
    ELSE line[1] = "/" /\ line[2] = "/"

\* line.replace(/\/\/.*$/, '')
RemoveLineComment(line) ==
    LET c == IndexOfFrom(line, <<"/", "/">>, 0)
    IN  IF c = -1 THEN line ELSE Slice(line, 0, c)

Blanks(n) == [i \in 1..n |-> " "]

\* util.ts stripStrings, the regular expression /\\"([^\\"\\]|\\.)*\\"/g: a
\* match opens with a backslash and a quote, runs over characters that are
\* neither (or a backslash and the character after it), and closes with the
\* last backslash-quote pair that run reaches.  LastClose is the column of
\* the closing quote, -1 when there is none.
RECURSIVE LastClose(_, _, _)
LastClose(line, j, best) ==
    IF j >= Len(line) THEN best
    ELSE IF At(line, j) = "\\"
         THEN IF j + 1 >= Len(line) THEN best
              ELSE IF At(line, j + 1) = "\"" THEN LastClose(line, j + 2, j + 1)
              ELSE LastClose(line, j + 2, best)
    ELSE IF At(line, j) = "\"" THEN best
    ELSE LastClose(line, j + 1, best)

StringMatchEnd(line, i) ==
    IF i + 1 < Len(line) /\ At(line, i) = "\\" /\ At(line, i + 1) = "\""
    THEN LastClose(line, i + 2, -1)
    ELSE -1

RECURSIVE StripFrom(_, _)
StripFrom(line, i) ==
    IF i >= Len(line) THEN << >>
    ELSE LET e == StringMatchEnd(line, i)
         IN  IF e = -1 THEN <<At(line, i)>> \o StripFrom(line, i + 1)
             ELSE Blanks(e - i + 1) \o StripFrom(line, e + 1)

stripStrings(line) == StripFrom(line, 0)

NoMatch == [index |-> -1, nameEnd |-> -1, openParen |-> -1]

RECURSIVE SkipWord(_, _)
\* the first column >= i whose character is not [A-Za-z0-9_]
SkipWord(line, i) ==
    IF i < Len(line) /\ IsWordChar(At(line, i)) THEN SkipWord(line, i + 1) ELSE i

RECURSIVE SkipSpaces(_, _)
\* the first column >= i whose character is not \s
SkipSpaces(line, i) ==
    IF i < Len(line) /\ IsSpace(At(line, i)) THEN SkipSpaces(line, i + 1) ELSE i

\* callStartPattern /\b([A-Za-z_][A-Za-z0-9_]*)\s*\(/ tried at column p
MatchCallAt(line, p) ==
    IF /\ p < Len(line)
       /\ IsIdentStart(At(line, p))
       /\ (p = 0 \/ ~IsWordChar(At(line, p - 1)))
    THEN LET e == SkipWord(line, p)
             q == SkipSpaces(line, e)
         IN  IF q < Len(line) /\ At(line, q) = "("
             THEN [index |-> p, nameEnd |-> e, openParen |-> q]
             ELSE NoMatch
    ELSE NoMatch

\* callStartPattern.exec(line) with lastIndex = from: the leftmost match
RECURSIVE ExecCallStart(_, _)
ExecCallStart(line, from) ==
    IF from >= Len(line) THEN NoMatch
    ELSE IF MatchCallAt(line, from) # NoMatch THEN MatchCallAt(line, from)
    ELSE ExecCallStart(line, from + 1)

\* a search for the first ')' that counts no depth
FirstCloseParen(line, i, depth) == IndexOfFrom(line, <<")">>, i)

\* functions.ts:53-65: the column where the depth counted from the opening
\* parenthesis returns to zero, -1 when it never does
RECURSIVE FindCloseParen(_, _, _)
FindCloseParen(line, i, depth) ==
    IF i >= Len(line) THEN -1
    ELSE LET d == IF At(line, i) = "(" THEN depth + 1
                  ELSE IF At(line, i) = ")" THEN depth - 1
                  ELSE depth
         IN  IF d = 0 THEN i ELSE FindCloseParen(line, i + 1, d)

\* a rule without the exemption of calls with no arguments
NeverAllSpace(args) == FALSE

\* /^\s*$/.test(args)
AllSpace(args) == \A i \in DOMAIN args : IsSpace(args[i])

MsgBoth == "Function arguments must have space after '(' and before ')'"
MsgBefore == "Expected space before ')'"
MsgAfter == "Expected space after '('"

\* the two one-sided messages exchanged
MessageSwapped(hasSpaceAfterParen, hasSpaceBeforeParen) ==
    IF hasSpaceAfterParen /\ ~hasSpaceBeforeParen THEN MsgAfter
    ELSE IF ~hasSpaceAfterParen /\ hasSpaceBeforeParen THEN MsgBefore
    ELSE MsgBoth

\* functions.ts:76-89
Message(hasSpaceAfterParen, hasSpaceBeforeParen) ==
    IF hasSpaceAfterParen /\ ~hasSpaceBeforeParen THEN MsgBefore
    ELSE IF ~hasSpaceAfterParen /\ hasSpaceBeforeParen THEN MsgAfter
    ELSE MsgBoth

Diagnostic(lineNum, startChar, endChar, message) ==
    [severity |-> "Warning",
     range |-> [start |-> [line |-> lineNum, character |-> startChar],
                end |-> [line |-> lineNum, character |-> endChar]],
     message |-> message,
     source |-> "afl-lsp"]

\* functions.ts:43-98, the body of the while loop for one match: the
\* diagnostics it pushes
CheckCall(line, lineNum, m) ==
    LET closeParenIdx == FindCloseParen(line, m.openParen, 0)
        args == Slice(line, m.openParen + 1, closeParenIdx)
        hasSpaceAfterParen == args # << >> /\ IsSpace(args[1])
        hasSpaceBeforeParen == args # << >> /\ IsSpace(args[Len(args)])
    IN  IF closeParenIdx = -1 THEN << >>
        ELSE IF AllSpace(args) THEN << >>
        ELSE IF ~hasSpaceAfterParen \/ ~hasSpaceBeforeParen
             THEN << Diagnostic(lineNum, m.index, closeParenIdx + 1,
                                Message(hasSpaceAfterParen, hasSpaceBeforeParen)) >>
        ELSE << >>

\* a scan that resumes behind the call's closing parenthesis
ResumeAfterCall(line, m) ==
    IF FindCloseParen(line, m.openParen, 0) = -1 THEN m.openParen + 1
    ELSE FindCloseParen(line, m.openParen, 0) + 1

\* where exec resumes after a match: lastIndex is the end of the match, the
\* column after the opening parenthesis
NextScanFrom(line, m) == m.openParen + 1

\* functions.ts:42: the while loop over one line, from lastIndex = from
RECURSIVE ScanLine(_, _, _)
ScanLine(line, lineNum, from) ==
    LET m == ExecCallStart(line, from)
    IN  IF m = NoMatch THEN << >>
        ELSE CheckCall(line, lineNum, m) \o ScanLine(line, lineNum, NextScanFrom(line, m))

\* a pattern whose lastIndex stays where the last match ended
RECURSIVE LastIndexKept(_, _)
LastIndexKept(line, from) ==
    LET m == ExecCallStart(line, from)
    IN  IF m = NoMatch THEN from ELSE LastIndexKept(line, NextScanFrom(line, m))

\* callStartPattern.lastIndex when the while loop of functions.ts:42 is
\* over: the loop ends with the exec that finds no match, and a global
\* pattern's exec that finds no match sets lastIndex to 0
RECURSIVE LastIndexAfter(_, _)
LastIndexAfter(line, from) ==
    LET m == ExecCallStart(line, from)
    IN  IF m = NoMatch THEN 0 ELSE LastIndexAfter(line, NextScanFrom(line, m))

\* a flag that reads the markers one after the other: a line that closes a
\* comment and opens the next one leaves the flag set
BlockStateInOrder(inBlock, line) ==
    Includes(line, <<"/", "*">>) \/ (inBlock /\ ~Includes(line, <<"*", "/">>))

\* functions.ts:22-28: the comment-block flag after seeing a line
BlockStateAfter(inBlock, line) ==
    LET entered == inBlock \/ Includes(line, <<"/", "*">>)
    IN  entered /\ ~Includes(line, <<"*", "/">>)

\* functions.ts:31
SkipLine(line, inBlock) ==
    IsLineComment(line) \/ Includes(line, <<"\"">>) \/ inBlock

\* functions.ts:18-99: the for loop from line lineNum on; lastIndex is that
\* of callStartPattern, which the loop's lines share: a line that is
\* skipped leaves it, a line that is scanned starts from it
RECURSIVE CheckLines(_, _, _, _)
CheckLines(lines, lineNum, inBlock, lastIndex) ==
    IF lineNum >= Len(lines) THEN << >>
    ELSE LET originalLine == At(lines, lineNum)
             now == BlockStateAfter(inBlock, originalLine)
             line == stripStrings(RemoveLineComment(originalLine))
             here == IF SkipLine(originalLine, now) THEN << >>
                     ELSE ScanLine(line, lineNum, lastIndex)
             next == IF SkipLine(originalLine, now) THEN lastIndex
                     ELSE LastIndexAfter(line, lastIndex)
         IN  here \o CheckLines(lines, lineNum + 1, now, next)

\* a flag kept between calls: a call starts with what the last call left
FlagKept(leftOver) == leftOver

\* functions.ts:16 let isInCommentBlock = false: the flag is a local of the
\* call, so a call starts outside a comment whatever earlier calls left
FlagAtEntry(leftOver) == FALSE

\* the flag when the for loop of functions.ts:18 has run over every line
RECURSIVE FlagAtReturn(_, _, _)
FlagAtReturn(lines, lineNum, inBlock) ==
    IF lineNum >= Len(lines) THEN inBlock
    ELSE FlagAtReturn(lines, lineNum + 1, BlockStateAfter(inBlock, At(lines, lineNum)))

\* checkFunctionSpaces called when an earlier call left the flag at
\* leftOver; the pattern is made anew by each call (functions.ts:10), with
\* lastIndex 0
checkFunctionSpacesFrom(t, leftOver) ==
    CheckLines(SplitLines(t), 0, FlagAtEntry(leftOver), 0)

checkFunctionSpaces(t) == checkFunctionSpacesFrom(t, FALSE)

-----------------------------------------------------------------------------
(* server.ts: the debounce timer of onDidChangeContent. *)

Null == 0

\* no call of checkFunctionSpaces made yet
NoCall == [text |-> << >>, diagnostics |-> << >>]

TimerIds == 1..MaxTimers

PendingIds == {t.id : t \in timers}

\* a handler that forgets clearTimeout
ClearNothing(handle) == timers

\* clearTimeout(updateSymbolTimeout) when the handle is not null
ClearPending(handle) ==
    IF handle # Null THEN {t \in timers : t.id # handle} ELSE timers

\* a Timeout object that is neither pending nor the one the handle holds
FreshIds(handle) == TimerIds \ ({t.id : t \in ClearPending(handle)} \cup {handle})

NewTimerId(handle) == CHOOSE i \in FreshIds(handle) : \A j \in FreshIds(handle) : i <= j

\* server.ts:114-128 onDidChangeContent for e.document = (uri, t, languageId).
\* The closure keeps e.document; a document's text changes only through a
\* notification that runs this handler again, so the text the closure reads
\* when it fires is the text of this notification.
ScheduleUpdate(uri, t, languageId) ==
    IF languageId # "afl"
    THEN UNCHANGED <<updateSymbolTimeout, timers>>
    ELSE /\ FreshIds(updateSymbolTimeout) # {}
         /\ updateSymbolTimeout' = NewTimerId(updateSymbolTimeout)
         /\ timers' = ClearPending(updateSymbolTimeout)
                        \cup {[id |-> NewTimerId(updateSymbolTimeout),
                               uri |-> uri, text |-> t]}

-----------------------------------------------------------------------------
(* What the last handler did: the event, and for an indexing pass the      *)
(* arguments of analyzeText, the AST cached before it and its result.      *)

\* null, as the answer to a request
NullResponse == [kind |-> "null"]

NoPosition == [line |-> -1, character |-> -1]

NoPass == [op |-> "none", uri |-> "", text |-> << >>, languageId |-> "",
           indexed |-> FALSE, clearCache |-> FALSE, before |-> NoAst,
           table |-> EmptyMap, position |-> NoPosition, context |-> << >>,
           response |-> NullResponse]

Pass(op, uri, t, languageId, clearCache) ==
    [op |-> op, uri |-> uri, text |-> t, languageId |-> languageId,
     indexed |-> TRUE, clearCache |-> clearCache, before |-> CachedAst(uri),
     table |-> analyzeText(t, uri, clearCache),
     position |-> NoPosition, context |-> << >>, response |-> NullResponse]

Event(op, uri, t, languageId) ==
    [NoPass EXCEPT !.op = op, !.uri = uri, !.text = t, !.languageId = languageId]

-----------------------------------------------------------------------------
(* The handlers. *)

\* textDocument/didOpen: TextDocuments stores the document and fires
\* onDidOpen (server.ts:110) and then onDidChangeContent (server.ts:114, 227)
DidOpen(uri, t, languageId) ==
    /\ ~MapHas(documents, uri)
    /\ documents' = MapSet(documents, uri, [text |-> t, languageId |-> languageId])
    /\ updateSymbolsForDocument(uri, t, FALSE)
    /\ ScheduleUpdate(uri, t, languageId)
    /\ last' = Pass("open", uri, t, languageId, FALSE)
    /\ UNCHANGED lintVars
    /\ UNCHANGED includeVars

\* textDocument/didChange of an open document: onDidChangeContent
DidChange(uri, t) ==
    /\ MapHas(documents, uri)
    /\ documents' = [documents EXCEPT ![uri].text = t]
    /\ ScheduleUpdate(uri, t, documents[uri].languageId)
    /\ last' = Event("change", uri, t, documents[uri].languageId)
    /\ UNCHANGED <<astMap, symbolTable, symbolInfoMap>>
    /\ UNCHANGED lintVars
    /\ UNCHANGED includeVars

\* a close that drops the symbols located in the closed document
DidClosePruning(uri) ==
    /\ MapHas(documents, uri)
    /\ documents' = MapDelete(documents, uri)
    /\ last' = Event("close", uri, documents[uri].text, documents[uri].languageId)
    /\ symbolTable' = [name \in {n \in DOMAIN symbolTable : symbolTable[n].uri # uri}
                          |-> symbolTable[name]]
    /\ UNCHANGED <<astMap, symbolInfoMap, updateSymbolTimeout, timers>>
    /\ UNCHANGED lintVars
    /\ UNCHANGED includeVars

\* textDocument/didClose: server.ts:204-206 onDidClose
DidClose(uri) ==
    /\ MapHas(documents, uri)
    /\ documents' = MapDelete(documents, uri)
    /\ last' = Event("close", uri, documents[uri].text, documents[uri].languageId)
    /\ UNCHANGED <<astMap, symbolTable, symbolInfoMap, updateSymbolTimeout, timers>>
    /\ UNCHANGED lintVars
    /\ UNCHANGED includeVars

\* the timeout of server.ts:124-127 fires
TimerFire(t) ==
    /\ t \in timers
    /\ timers' = timers \ {t}
    /\ updateSymbolsForDocument(t.uri, t.text, TRUE)
    /\ last' = Pass("timer", t.uri, t.text, "afl", TRUE)
    /\ UNCHANGED <<documents, updateSymbolTimeout>>
    /\ UNCHANGED lintVars
    /\ UNCHANGED includeVars

-----------------------------------------------------------------------------
(* The requests.  A request changes nothing but `last`, which records the  *)
(* request and its answer.                                                 *)

\* a request for the document uri and its answer
Request(op, uri, position, response) ==
    [NoPass EXCEPT !.op = op, !.uri = uri, !.position = position,
                   !.response = response]

\* server.ts:231-246 validateTextDocument: the list it returns
validateTextDocument(textDocument) == << >>

\* server.ts:208-223 connection.languages.diagnostics.on: the report
diagnosticsReport(uri) ==
    IF MapHas(documents, uri)
    THEN [kind |-> "full", items |-> validateTextDocument(documents[uri])]
    ELSE [kind |-> "full", items |-> << >>]

\* the handler threw
Raised == [kind |-> "error"]

\* null as the word under the cursor; the pattern matches no empty string, and
\* the handlers test the word with !word
NoWord == << >>

NoMatchWord == [index |-> -1, end |-> -1]

\* symbolTable.ts:105-107 regex.exec(line) for /[A-Za-z_][A-Za-z0-9_]*/g with
\* lastIndex = from: the leftmost identifier from that column on
RECURSIVE ExecIdentifier(_, _)
ExecIdentifier(line, from) ==
    IF from >= Len(line) THEN NoMatchWord
    ELSE IF IsIdentStart(At(line, from))
         THEN [index |-> from, end |-> SkipWord(line, from)]
    ELSE ExecIdentifier(line, from + 1)

\* a test that leaves out the column just behind the identifier
InRunExclusive(char, start, end) == char >= start /\ char < end

\* symbolTable.ts:110
InRun(char, start, end) == char >= start /\ char <= end

\* symbolTable.ts:107-113: the while loop, exec resuming behind each match
RECURSIVE WordFrom(_, _, _)
WordFrom(line, char, from) ==
    LET match == ExecIdentifier(line, from)
    IN  IF match = NoMatchWord THEN NoWord
        ELSE IF InRun(char, match.index, match.end)
             THEN Slice(line, match.index, match.end)
        ELSE WordFrom(line, char, match.end)

\* symbolTable.ts:104-115
getWordAtPosition(line, char) == WordFrom(line, char, 0)

\* the string regex.exec makes of undefined
Undefined == <<"u", "n", "d", "e", "f", "i", "n", "e", "d">>

\* server.ts:145-146 document.getText().split(/\r?\n/)[position.line]: past
\* the last line it is undefined, which exec converts to a string
LineAt(t, lineNum) ==
    IF lineNum < Len(SplitLines(t)) THEN At(SplitLines(t), lineNum) ELSE Undefined

\* a lookup that answers a name without an entry by an empty location
GetOrEmpty(m, k) ==
    IF MapHas(m, k) THEN m[k]
    ELSE [uri |-> "", range |-> [start |-> [line |-> 0, character |-> 0],
                                 end |-> [line |-> 0, character |-> 0]]]

\* symbolTable.get(word) || null, symbolInfoMap.get(name) || null
GetOrNull(m, k) == IF MapHas(m, k) THEN m[k] ELSE NullResponse

\* symbolTable.ts:117-119
getSymbolInfo(name) == GetOrNull(symbolInfoMap, name)

\* a handler that uses the document without testing that it is there
onDefinitionUnguarded(uri, position) ==
    IF ~MapHas(documents, uri) THEN Raised
    ELSE GetOrNull(symbolTable,
                   getWordAtPosition(LineAt(documents[uri].text, position.line),
                                     position.character))

\* server.ts:138-154 connection.onDefinition: what it returns
onDefinition(uri, position) ==
    IF ~MapHas(documents, uri) THEN NullResponse
    ELSE LET word == getWordAtPosition(LineAt(documents[uri].text, position.line),
                                       position.character)
         IN  IF word = NoWord THEN NullResponse
             ELSE GetOrNull(symbolTable, word)

\* the Hover of server.ts:296-301, value `**${word}**\n\n${info}`
Markup(word, info) ==
    [contents |-> [kind |-> "markdown", value |-> <<"**", word, "**\n\n", info>>]]

\* server.ts:278-302 connection.onHover: what it returns
onHover(uri, position) ==
    IF ~MapHas(documents, uri) THEN NullResponse
    ELSE LET word == getWordAtPosition(LineAt(documents[uri].text, position.line),
                                       position.character)
         IN  IF word = NoWord THEN NullResponse
             ELSE IF getSymbolInfo(word) = NullResponse THEN NullResponse
             ELSE Markup(word, getSymbolInfo(word))

\* server.ts:253-263 connection.onCompletion: one item per name of the global
\* table (the order of the items, the table's insertion order, is left out)
onCompletion(uri) ==
    {[label |-> name, kind |-> "Function", data |-> name] : name \in DOMAIN symbolTable}

\* util.ts:59-70 DocumentSymbol.create: range and selectionRange are both the
\* node's location, with 0-based lines
DocumentSymbol(name, kind, loc, children) ==
    LET range == [start |-> [line |-> loc.start.line - 1, character |-> loc.start.column],
                  end |-> [line |-> loc.end.line - 1, character |-> loc.end.column]]
    IN  [name |-> name, detail |-> "", kind |-> kind, range |-> range,
         selectionRange |-> range, children |-> children]

RECURSIVE nodeToDocumentSymbol(_)
RECURSIVE nodesToDocumentSymbols(_)

\* nodes.map(nodeToDocumentSymbol).flatMap(normalizeDocumentSymbol)
nodesToDocumentSymbols(nodes) ==
    IF nodes = << >> THEN << >>
    ELSE nodeToDocumentSymbol(Head(nodes)) \o nodesToDocumentSymbols(Tail(nodes))

\* util.ts:18-71 nodeToDocumentSymbol, its result as a list (util.ts:12-16
\* normalizeDocumentSymbol): empty for null
nodeToDocumentSymbol(node) ==
    CASE node.type = "FunctionDeclaration" /\ node.id # NoAst ->
           << DocumentSymbol(node.id.name, "Function", node.loc,
                             nodesToDocumentSymbols(node.body)) >>
      [] node.type = "VariableDeclaration" /\ node.declarations # << >> ->
           nodesToDocumentSymbols(node.declarations)
      [] node.type = "VariableDeclarator" /\ node.id.type = "Identifier" ->
           << DocumentSymbol(node.id.name, "Variable", node.id.loc, << >>) >>
      [] OTHER -> << >>

\* server.ts:317-346 connection.onDocumentSymbol: the parse of server.ts:326
\* is not guarded, so a text the parser rejects makes the handler throw
onDocumentSymbol(uri) ==
    IF ~MapHas(documents, uri) THEN << >>
    ELSE IF getAST(documents[uri].text) = NoAst THEN Raised
    ELSE nodesToDocumentSymbols(getAST(documents[uri].text).body)

OnDocumentSymbol(uri) ==
    /\ last' = Request("documentSymbol", uri, NoPosition, onDocumentSymbol(uri))
    /\ UNCHANGED <<documents, astMap, symbolTable, symbolInfoMap, updateSymbolTimeout,
                   timers>>
    /\ UNCHANGED lintVars
    /\ UNCHANGED includeVars

\* the characters of the three messages of functions.ts:85-89
MessageText(message) ==
    CASE message = MsgBefore ->
           <<"E", "x", "p", "e", "c", "t", "e", "d", " ", "s", "p", "a",
             "c", "e", " ", "b", "e", "f", "o", "r", "e", " ", "'", ")",
             "'">>
      [] message = MsgAfter ->
           <<"E", "x", "p", "e", "c", "t", "e", "d", " ", "s", "p", "a",
             "c", "e", " ", "a", "f", "t", "e", "r", " ", "'", "(", "'">>
      [] OTHER ->
           <<"F", "u", "n", "c", "t", "i", "o", "n", " ", "a", "r", "g",
             "u", "m", "e", "n", "t", "s", " ", "m", "u", "s", "t", " ",
             "h", "a", "v", "e", " ", "s", "p", "a", "c", "e", " ", "a",
             "f", "t", "e", "r", " ", "'", "(", "'", " ", "a", "n", "d",
             " ", "b", "e", "f", "o", "r", "e", " ", "'", ")", "'">>

\* a pattern that leaves out the word "space"
BeforeParenPattern == <<"b", "e", "f", "o", "r", "e", " ", "'", ")", "'">>

\* server.ts:307 the argument of includes: "space before ')'"
FixablePattern ==
    <<"s", "p", "a", "c", "e", " ", "b", "e", "f", "o", "r", "e", " ", "'", ")", "'">>

\* offset in the text of column 0 of line k
RECURSIVE LineOffset(_, _)
LineOffset(lines, k) ==
    IF k = 0 THEN 0 ELSE LineOffset(lines, k - 1) + Len(At(lines, k - 1)) + 1

\* TextDocument.offsetAt: a line past the end gives the end of the text, a
\* character past the end of its line the end of that line
OffsetAt(t, position) ==
    LET lines == SplitLines(t)
    IN  IF position.line >= Len(lines) THEN Len(t)
        ELSE IF position.character <= 0 THEN LineOffset(lines, position.line)
        ELSE LineOffset(lines, position.line)
               + (IF position.character <= Len(At(lines, position.line))
                  THEN position.character ELSE Len(At(lines, position.line)))

\* functions.ts:113 document.getText(range)
GetText(t, range) == Slice(t, OffsetAt(t, range.start), OffsetAt(t, range.end))

\* the first ch of the line instead of the last
FirstIndexOf(line, ch, i) == IndexOfFrom(line, <<ch>>, 0)

\* text.lastIndexOf(ch), searched down from column i
RECURSIVE LastIndexOf(_, _, _)
LastIndexOf(line, ch, i) ==
    IF i < 0 THEN -1
    ELSE IF At(line, i) = ch THEN i
    ELSE LastIndexOf(line, ch, i - 1)

\* an edit that puts the blank behind the parenthesis
SpaceBehindParen(span, lastParen) ==
    Slice(span, 0, lastParen) \o <<")", " ">> \o Slice(span, lastParen + 1, Len(span))

\* functions.ts:120 text.slice(0, lastParen) + ' )' + text.slice(lastParen + 1)
NewText(span, lastParen) ==
    Slice(span, 0, lastParen) \o <<" ", ")">> \o Slice(span, lastParen + 1, Len(span))

\* undefined, what fixFunctionSapces returns without an action
NoAction == [kind |-> "undefined"]

\* functions.ts:105-136 fixFunctionSapces
fixFunctionSapces(uri, diagnostic) ==
    IF ~MapHas(documents, uri) THEN NoAction
    ELSE LET range == diagnostic.range
             span == GetText(documents[uri].text, range)
             lastParen == LastIndexOf(span, ")", Len(span) - 1)
         IN  IF lastParen = -1 THEN NoAction
             ELSE [title |-> "Insert space before ')'",
                   kind |-> "quickfix",
                   diagnostics |-> <<diagnostic>>,
                   edit |-> [uri |-> uri, range |-> range,
                             newText |-> NewText(span, lastParen)]]

\* server.ts:304-315 connection.onCodeAction: the loop over the diagnostics
RECURSIVE onCodeAction(_, _)
onCodeAction(uri, diags) ==
    IF diags = << >> THEN << >>
    ELSE LET diagnostic == Head(diags)
             action == fixFunctionSapces(uri, diagnostic)
             here == IF Includes(MessageText(diagnostic.message), FixablePattern)
                        /\ action # NoAction
                     THEN <<action>> ELSE << >>
         IN  here \o onCodeAction(uri, Tail(diags))

OnCodeAction(uri, diags) ==
    /\ last' = [Request("codeAction", uri, NoPosition, onCodeAction(uri, diags))
                   EXCEPT !.context = diags]
    /\ UNCHANGED <<documents, astMap, symbolTable, symbolInfoMap, updateSymbolTimeout,
                   timers>>
    /\ UNCHANGED lintVars
    /\ UNCHANGED includeVars

\* a TextEdit as the editor applies it: the span of its range is replaced by
\* its newText
ApplyTextEdit(t, edit) ==
    Slice(t, 0, OffsetAt(t, edit.range.start)) \o edit.newText
        \o Slice(t, OffsetAt(t, edit.range.end), Len(t))

\* the editor applies the edit of the k-th action of the last code action
\* answer and notifies the change: onDidChangeContent (server.ts:114-128)
\* stores the text and arms the timeout again.  `last` keeps the diagnostics
\* of the action, the edit and the text it was applied to.
ApplyFix(k) ==
    /\ last.op = "codeAction"
    /\ k \in DOMAIN last.response
    /\ MapHas(documents, last.uri)
    /\ LET uri == last.uri
           doc == documents[uri]
           changed == ApplyTextEdit(doc.text, last.response[k].edit)
       IN  /\ documents' = [documents EXCEPT ![uri].text = changed]
           /\ ScheduleUpdate(uri, changed, doc.languageId)
           /\ last' = [Event("change", uri, changed, doc.languageId)
                          EXCEPT !.context = last.response[k].diagnostics,
                                 !.response = [kind |-> "applied",
                                               edit |-> last.response[k].edit,
                                               text |-> doc.text]]
    /\ UNCHANGED <<astMap, symbolTable, symbolInfoMap>>
    /\ UNCHANGED lintVars
    /\ UNCHANGED includeVars

OnDefinition(uri, position) ==
    /\ last' = Request("definition", uri, position, onDefinition(uri, position))
    /\ UNCHANGED <<documents, astMap, symbolTable, symbolInfoMap, updateSymbolTimeout,
                   timers>>
    /\ UNCHANGED lintVars
    /\ UNCHANGED includeVars

\* a hover that indexes the document again before it answers
OnHoverIndexing(uri, position) ==
    /\ last' = Request("hover", uri, position, onHover(uri, position))
    /\ IF MapHas(documents, uri)
       THEN updateSymbolsForDocument(uri, documents[uri].text, TRUE)
       ELSE UNCHANGED <<astMap, symbolTable, symbolInfoMap>>
    /\ UNCHANGED <<documents, updateSymbolTimeout, timers>>
    /\ UNCHANGED lintVars
    /\ UNCHANGED includeVars

OnHover(uri, position) ==
    /\ last' = Request("hover", uri, position, onHover(uri, position))
    /\ UNCHANGED <<documents, astMap, symbolTable, symbolInfoMap, updateSymbolTimeout,
                   timers>>
    /\ UNCHANGED lintVars
    /\ UNCHANGED includeVars

OnCompletion(uri) ==
    /\ last' = Request("completion", uri, NoPosition, onCompletion(uri))
    /\ UNCHANGED <<documents, astMap, symbolTable, symbolInfoMap, updateSymbolTimeout,
                   timers>>
    /\ UNCHANGED lintVars
    /\ UNCHANGED includeVars

OnDiagnostics(uri) ==
    /\ last' = Request("diagnostics", uri, NoPosition, diagnosticsReport(uri))
    /\ UNCHANGED <<documents, astMap, symbolTable, symbolInfoMap, updateSymbolTimeout,
                   timers>>
    /\ UNCHANGED lintVars
    /\ UNCHANGED includeVars

Init ==
    /\ documents = EmptyMap
    /\ astMap = EmptyMap
    /\ symbolTable = EmptyMap
    /\ symbolInfoMap = EmptyMap
    /\ updateSymbolTimeout = Null
    /\ timers = {}
    /\ last = NoPass
    /\ text = << >>
    /\ diagnostics = << >>
    /\ lintDone = FALSE
    /\ isInCommentBlock = FALSE
    /\ flagBefore = FALSE
    /\ firstCall = NoCall
    /\ files = EmptyMap
    /\ callStack = << >>

Next ==
    \/ \E uri \in URIs, t \in Texts, languageId \in LanguageIds : DidOpen(uri, t, languageId)
    \/ \E uri \in URIs, t \in Texts : DidChange(uri, t)
    \/ \E uri \in URIs : DidClose(uri)
    \/ \E t \in timers : TimerFire(t)

Spec == Init /\ [][Next]_vars

\* The server with its requests, for documents of language afl whose text is
\* the function or the text the parser rejects.
QueryTexts == {TextFunc, TextBad}

\* on line 0 the start of a keyword, a column inside "function" that is the
\* a of "var a = ;", and the column behind f that is past the end of
\* "var a = ;"; on line 1 the a of the function's body, a line that the
\* other text does not have
QueryPositions ==
    { [line |-> 0, character |-> 0], [line |-> 0, character |-> 4],
      [line |-> 0, character |-> 10], [line |-> 1, character |-> 6] }

\* params.context.diagnostics of a code action request: diagnostics over the
\* call f(x) of line 0, one for each message
ContextDiagnostics ==
    { << Diagnostic(0, 9, 13, MsgBefore) >>,
      << Diagnostic(0, 9, 13, MsgBoth), Diagnostic(0, 9, 13, MsgAfter) >> }

QueryNext ==
    \/ \E uri \in URIs, t \in QueryTexts : DidOpen(uri, t, "afl")
    \/ \E uri \in URIs, t \in QueryTexts : DidChange(uri, t)
    \/ \E uri \in URIs : DidClose(uri)
    \/ \E t \in timers : TimerFire(t)
    \/ \E uri \in URIs, position \in QueryPositions : OnDefinition(uri, position)
    \/ \E uri \in URIs, position \in QueryPositions : OnHover(uri, position)
    \/ \E uri \in URIs : OnCompletion(uri)
    \/ \E uri \in URIs : OnDiagnostics(uri)
    \/ \E uri \in URIs : OnDocumentSymbol(uri)
    \/ \E uri \in URIs, diags \in ContextDiagnostics : OnCodeAction(uri, diags)

QuerySpec == Init /\ [][QueryNext]_vars

\* The indexer on afl documents whose text declares a name twice, in one
\* text or in two.
IndexTexts == {TextVarA, TextFunc, TextVars}

IndexNext ==
    \/ \E uri \in URIs, t \in IndexTexts : DidOpen(uri, t, "afl")
    \/ \E uri \in URIs, t \in IndexTexts : DidChange(uri, t)
    \/ \E uri \in URIs : DidClose(uri)
    \/ \E t \in timers : TimerFire(t)

IndexSpec == Init /\ [][IndexNext]_vars

-----------------------------------------------------------------------------
(* The AST cache (symbolTable.ts analyzeText, astMap). *)

AstOf(m, uri) == IF MapHas(m, uri) THEN m[uri] ELSE NoAst

\* the table an indexing pass over this AST returns
TableOf(ast, uri) == IF ast = NoAst THEN EmptyMap ELSE processNodes(ast, uri, EmptyMap)

Reparsed(p) == p.indexed /\ (p.before = NoAst \/ p.clearCache)

\* C1: a forced refresh whose parse fails, with an AST already cached for the
\* uri, is served from the cached AST: the pass returns that AST's symbols.
\* The code returns the empty table.
C1_FallbackToCachedOnFailure ==
    (last.indexed /\ last.clearCache /\ last.before # NoAst /\ getAST(last.text) = NoAst)
        => last.table = TableOf(last.before, last.uri)

\* C2: a pass with clearCache unset and an AST cached returns the symbols of
\* the cached AST whatever text it is given and leaves the cache as it was;
\* a cache entry changes only in a pass that reparsed its own uri with
\* success, to the AST of that pass's text; a failed parse changes no entry.
C2_CacheReuseReplaceOnSuccess ==
    [][ /\ (last'.indexed /\ ~last'.clearCache /\ AstOf(astMap, last'.uri) # NoAst)
            => /\ last'.table = TableOf(AstOf(astMap, last'.uri), last'.uri)
               /\ astMap' = astMap
        /\ \A u \in URIs :
              AstOf(astMap', u) # AstOf(astMap, u)
                => /\ last'.indexed /\ last'.uri = u
                   /\ AstOf(astMap, u) = NoAst \/ last'.clearCache
                   /\ getAST(last'.text) # NoAst
                   /\ AstOf(astMap', u) = getAST(last'.text)
        /\ (Reparsed(last') /\ getAST(last'.text) = NoAst) => astMap' = astMap
      ]_vars

\* a pass served from the cache for a text whose own parse is another AST,
\* and a failed forced parse over a cached entry
C2_Witness ==
    /\ last.indexed /\ ~last.clearCache /\ last.before # NoAst
    /\ getAST(last.text) # NoAst /\ getAST(last.text) # last.before
    /\ last.table = TableOf(last.before, last.uri)
    /\ last.table # TableOf(getAST(last.text), last.uri)

\* C3: after a close the cache holds no AST for the closed document, and an
\* open indexes the text it is given from a fresh parse.  The code never
\* deletes from astMap.
C3_CloseInvalidatesCache ==
    /\ last.op = "close" => ~MapHas(astMap, last.uri)
    /\ last.op = "open" => last.table = TableOf(getAST(last.text), last.uri)

\* the table analyzeText returns for (t, uri, clearCache) when the cache is m
PassOver(m, t, uri, clearCache) ==
    TableOf(AstForPass(AstOf(m, uri), t, clearCache), uri)

\* C21: a pass whose parse fails returns no symbols and leaves the symbol
\* table, the info map and every cached AST, the document's own and the
\* others', as they were; so what a pass over any text of another document
\* would return, and the completions, are after the failure what they were
\* before it.
C21_ParseFailureIsolated ==
    [][ (Reparsed(last') /\ getAST(last'.text) = NoAst)
          => /\ last'.table = EmptyMap
             /\ symbolTable' = symbolTable
             /\ symbolInfoMap' = symbolInfoMap
             /\ astMap' = astMap
             /\ \A u \in URIs \ {last'.uri}, t \in Texts, clearCache \in BOOLEAN :
                   PassOver(astMap', t, u, clearCache) = PassOver(astMap, t, u, clearCache)
             /\ \A u \in URIs : onCompletion(u)' = onCompletion(u)
      ]_vars

\* a forced parse of one document has failed while an AST is cached for it
\* and for the other document and the table holds symbols of both
C21_Witness ==
    /\ Reparsed(last) /\ getAST(last.text) = NoAst
    /\ last.before # NoAst
    /\ \A u \in URIs : MapHas(astMap, u)
    /\ \E n, m \in DOMAIN symbolTable :
          symbolTable[n].uri = last.uri /\ symbolTable[m].uri # last.uri

\* a position of a Location lies in the text: its line is one of the text's
\* lines and its character is a column of that line or the line's end
InText(t, position) ==
    /\ position.line \in 0..(Len(SplitLines(t)) - 1)
    /\ position.character \in 0..Len(At(SplitLines(t), position.line))

\* start <= end, lines first
NotAfter(start, end) ==
    \/ start.line < end.line
    \/ start.line = end.line /\ start.character <= end.character

\* C23: every symbol an indexing pass returns, a pass served from the cache
\* included, has a range whose start is not after its end and whose two
\* positions lie in the text the pass was given.  A pass served from the
\* cache returns the ranges of the cached AST, which was parsed from
\* another text.
C23_LocationsWithinText ==
    last.indexed =>
        \A name \in DOMAIN last.table :
            /\ NotAfter(last.table[name].range.start, last.table[name].range.end)
            /\ InText(last.text, last.table[name].range.start)
            /\ InText(last.text, last.table[name].range.end)

\* C25: two passes in a row over the same parseable text of the same
\* document, forced or not, return the same symbols, and the second leaves
\* the symbol table, the info map and the cache as the first left them.  A
\* first pass served from a cached AST of another text and a forced second
\* pass return different symbols.
C25_IndexingIdempotent ==
    [][ (/\ last.indexed /\ last'.indexed
         /\ last'.uri = last.uri /\ last'.text = last.text
         /\ getAST(last.text) # NoAst)
          => /\ last'.table = last.table
             /\ symbolTable' = symbolTable
             /\ symbolInfoMap' = symbolInfoMap
             /\ astMap' = astMap
      ]_vars

\* the AST a pass has indexed
AstOfPass(p) == AstForPass(p.before, p.text, p.clearCache)

\* the symbols of a pass in the order analyzeText has written them
Written(p) == analyzeNodes(TopLevelNodes(AstOfPass(p)), p.uri)

\* C24: the table has one location for a name; after the merge of a pass
\* every name of the pass's result has the location the pass wrote last for
\* it, whatever the table had for the name, and every other name has the
\* entry it had, or none as before.
C24_LastWriterWins ==
    [][ (last'.indexed /\ AstOfPass(last') # NoAst)
          => /\ DOMAIN last'.table = {Written(last')[i].name : i \in DOMAIN Written(last')}
             /\ \A i \in DOMAIN Written(last') :
                   (\A j \in DOMAIN Written(last') :
                       j > i => Written(last')[j].name # Written(last')[i].name)
                     => /\ last'.table[Written(last')[i].name] = Written(last')[i].loc
                        /\ Written(last')[i].name \in DOMAIN symbolTable'
                        /\ symbolTable'[Written(last')[i].name] = Written(last')[i].loc
             /\ \A name \in (DOMAIN symbolTable \cup DOMAIN symbolTable')
                                \ DOMAIN last'.table :
                   /\ name \in DOMAIN symbolTable /\ name \in DOMAIN symbolTable'
                   /\ symbolTable'[name] = symbolTable[name]
      ]_vars

\* a pass over "var a, x;\nvar a;" has put the second a into a table that
\* keeps a name of the other document
C24_Witness ==
    /\ last.indexed /\ last.text = TextVars /\ AstOfPass(last) = getAST(TextVars)
    /\ symbolTable[<<"a">>] = Location(last.uri, 1, 4, 1, 5)
    /\ \E name \in DOMAIN symbolTable : symbolTable[name].uri # last.uri

\* the identifiers a declaration statement declares
DeclaredBy(node) ==
    IF node.type = "VariableDeclaration"
    THEN {node.declarations[i].id : i \in {k \in DOMAIN node.declarations :
                                             node.declarations[k].id.type = "Identifier"}}
    ELSE {}

\* the identifiers of a top-level node: of a function its name, its
\* parameters and what the statements of its body declare
IdentifiersOf(node) ==
    IF node.type = "FunctionDeclaration" /\ node.id # NoAst
    THEN {node.id}
         \cup {node.params[i] : i \in {k \in DOMAIN node.params :
                                          node.params[k].type = "Identifier"}}
         \cup UNION {DeclaredBy(node.body[i]) : i \in DOMAIN node.body}
    ELSE DeclaredBy(node)

IdentifiersOfProgram(ast) == UNION {IdentifiersOf(ast.body[i]) : i \in DOMAIN ast.body}

\* C26: the result of a pass has exactly the names of the identifiers its
\* AST declares: each function's name, its parameters and the variables
\* declared by the statements of its body, and each declarator of a
\* top-level variable declaration; every entry is the range of such an
\* identifier, on the 0-based line, in the pass's document, and all of them
\* are entries of the one global table.
C26_FunctionsFlattened ==
    (last.indexed /\ AstOfPass(last) # NoAst) =>
        /\ DOMAIN last.table = {id.name : id \in IdentifiersOfProgram(AstOfPass(last))}
        /\ \A name \in DOMAIN last.table :
              /\ \E id \in IdentifiersOfProgram(AstOfPass(last)) :
                    /\ id.name = name
                    /\ last.table[name] =
                          Location(last.uri, id.loc.start.line - 1, id.loc.start.column,
                                   id.loc.end.line - 1, id.loc.end.column)
              /\ name \in DOMAIN symbolTable
              /\ symbolTable[name] = last.table[name]

\* a fresh pass over the function: its name, its parameter and the variable
\* of its body are in the table, beside a name of the other document
C26_Witness ==
    /\ last.indexed /\ last.text = TextFunc /\ AstOfPass(last) = getAST(TextFunc)
    /\ DOMAIN last.table = {<<"f">>, <<"x">>, <<"a">>}
    /\ symbolTable[<<"x">>] = Location(last.uri, 0, 11, 0, 12)
    /\ symbolTable[<<"a">>] = Location(last.uri, 1, 6, 1, 7)
    /\ \E uri \in URIs \ {last.uri} : MapHas(astMap, uri)

\* the names a text declares, none when it does not parse
NamesDeclared(t) ==
    IF getAST(t) = NoAst THEN {}
    ELSE {id.name : id \in IdentifiersOfProgram(getAST(t))}

\* C31: no step takes a name out of the symbol table: the names it has
\* after a step include those it had before.  A step that is no indexing
\* pass leaves the table as it was; after a pass over a text that does not
\* declare a name of the table (or does not parse), the name is still there
\* with the location it had, or, when the pass was served from the AST
\* cached by the document's earlier pass, with the location of that AST.
C31_StaleSymbolsSurvive ==
    [][ /\ DOMAIN symbolTable \subseteq DOMAIN symbolTable'
        /\ ~last'.indexed => symbolTable' = symbolTable
        /\ last'.indexed =>
              \A n \in DOMAIN symbolTable \ NamesDeclared(last'.text) :
                  /\ n \in DOMAIN symbolTable'
                  /\ \/ symbolTable'[n] = symbolTable[n]
                     \/ /\ ~Reparsed(last')
                        /\ n \in DOMAIN TableOf(last'.before, last'.uri)
                        /\ symbolTable'[n] = TableOf(last'.before, last'.uri)[n]
      ]_vars

\* a document has been re-indexed by a fresh parse of a text that no longer
\* declares a name the table still locates in that document
C31_Witness ==
    /\ Reparsed(last) /\ getAST(last.text) # NoAst
    /\ \E n \in DOMAIN symbolTable \ NamesDeclared(last.text) :
          symbolTable[n].uri = last.uri

\* C32: after every handler the symbol table and the symbol info map have
\* the same names, and the info of each name, which is what getSymbolInfo
\* hands to the hover, is the text "Identifier used at line " with the
\* number of the start line of the name's location in the table plus one:
\* the occurrence of the name that wrote the location wrote the info.
C32_HoverAgreesWithDefinition ==
    /\ DOMAIN symbolInfoMap = DOMAIN symbolTable
    /\ \A name \in DOMAIN symbolTable :
          getSymbolInfo(name)
            = <<"Identifier used at line ", symbolTable[name].range.start.line + 1>>

\* a pass over "var a, x;\nvar a;" after one over "var a;" of the other
\* document: a is located on the second line and its info quotes line 2,
\* x on the first with an info that quotes line 1
C32_Witness ==
    /\ last.indexed /\ last.text = TextVars /\ AstOfPass(last) = getAST(TextVars)
    /\ \E uri \in URIs \ {last.uri} :
          MapHas(astMap, uri) /\ astMap[uri] = getAST(TextVarA)
    /\ symbolTable[<<"a">>].range.start.line = 1
    /\ getSymbolInfo(<<"a">>) = <<"Identifier used at line ", 2>>
    /\ symbolTable[<<"x">>].range.start.line = 0
    /\ getSymbolInfo(<<"x">>) = <<"Identifier used at line ", 1>>

-----------------------------------------------------------------------------
(* The debounce (server.ts:112-128). *)

AflNotification(p) == p.op \in {"open", "change"} /\ p.languageId = "afl"

\* C4: at most one recompute is pending; a change notification of an afl
\* document cancels what is pending and leaves exactly one new timeout, for
\* the text of that notification; nothing else adds a timeout; a forced pass
\* runs only when the timeout fires, over the text of the pending timeout
\* (the latest afl change), and after it nothing is pending.
C4_DebounceCoalescing ==
    [][ /\ Cardinality(timers') <= 1
        /\ AflNotification(last')
             => \E t \in timers' :
                   /\ timers' = {t}
                   /\ t \notin timers
                   /\ t.uri = last'.uri /\ t.text = last'.text
                   /\ updateSymbolTimeout' = t.id
        /\ ~AflNotification(last') /\ last'.op # "timer" => timers' = timers
        /\ (last'.indexed /\ last'.clearCache) => last'.op = "timer"
        /\ last'.op = "timer"
             => \E t \in timers :
                   /\ timers = {t}
                   /\ last'.indexed /\ last'.clearCache
                   /\ last'.uri = t.uri /\ last'.text = t.text
                   /\ timers' = {}
      ]_vars

\* a burst of two changes of one document has been coalesced and the one
\* timeout has fired for the second text
C4_Witness ==
    /\ last.op = "timer" /\ last.indexed /\ last.clearCache
    /\ timers = {}
    /\ MapHas(documents, last.uri)
    /\ documents[last.uri].text = last.text
    /\ last.text = TextFunc
    /\ MapHas(astMap, last.uri) /\ astMap[last.uri] = getAST(TextFunc)

\* C5: a notification for one document leaves the pending recompute of every
\* other document pending.  The code has one handle for all documents.
C5_DebouncePerDocument ==
    [][ \A t \in timers :
          (last'.op \in {"open", "change"} /\ t.uri # last'.uri) => t \in timers'
      ]_vars

-----------------------------------------------------------------------------
(* The requests (server.ts:138-346). *)

IsOpen(uri) == MapHas(documents, uri)

\* C12: a diagnostics request for an open document answers with the
\* diagnostics checkFunctionSpaces produces for the document's current text,
\* and with the empty list for a document that is not open.  The code
\* answers every request with the empty list.
C12_DiagnosticsAreLintResult ==
    last.op = "diagnostics" =>
        last.response.items = (IF IsOpen(last.uri)
                               THEN checkFunctionSpaces(documents[last.uri].text)
                               ELSE << >>)

\* C16: a close leaves the symbol table and the info map as they were, so
\* every name a closed document contributed keeps its entry; and a
\* completion request, for whichever document, answers with one item for
\* each name of the global table.
C16_CloseKeepsSymbols ==
    [][ /\ last'.op = "close"
             => symbolTable' = symbolTable /\ symbolInfoMap' = symbolInfoMap
        /\ last'.op = "completion"
             => /\ {item.label : item \in last'.response} = DOMAIN symbolTable
                /\ \A name \in DOMAIN symbolTable :
                      ~IsOpen(symbolTable[name].uri)
                         => \E item \in last'.response : item.label = name
      ]_vars

\* completions asked for one document list a name whose location is in the
\* other document, which was closed
C16_Witness ==
    /\ last.op = "completion"
    /\ IsOpen(last.uri)
    /\ \E item \in last.response :
          /\ symbolTable[item.label].uri # last.uri
          /\ ~IsOpen(symbolTable[item.label].uri)

PositionOps == {"definition", "hover"}

\* C18: a definition or hover request leaves the symbol table, the info map,
\* the AST cache, the documents and the pending timeout as they were, and is
\* no indexing pass.
C18_PositionQueriesReadOnly ==
    [][ last'.op \in PositionOps
          => /\ symbolTable' = symbolTable
             /\ symbolInfoMap' = symbolInfoMap
             /\ astMap' = astMap
             /\ documents' = documents
             /\ timers' = timers
             /\ updateSymbolTimeout' = updateSymbolTimeout
             /\ ~last'.indexed
      ]_vars

\* a hover answered with markup while a timeout is pending and the cached
\* AST of the document is not the AST of its text
C18_Witness ==
    /\ last.op = "hover"
    /\ last.response # NullResponse
    /\ IsOpen(last.uri)
    /\ timers # {}
    /\ CachedAst(last.uri) # getAST(documents[last.uri].text)

\* the word getWordAtPosition finds at the position of the last request
WordOfRequest ==
    getWordAtPosition(LineAt(documents[last.uri].text, last.position.line),
                      last.position.character)

\* C19: a definition request answers with the table's location of the word
\* at the position when the document is open, there is a word and the table
\* has it, and with null otherwise; a hover request answers with the markup
\* of the word and its info when the info map has the word, and with null
\* otherwise; neither throws.
C19_UnresolvedReferenceIsNone ==
    /\ last.op = "definition" =>
          last.response =
             (IF IsOpen(last.uri) /\ WordOfRequest # NoWord
                                 /\ WordOfRequest \in DOMAIN symbolTable
              THEN symbolTable[WordOfRequest] ELSE NullResponse)
    /\ last.op = "hover" =>
          last.response =
             (IF IsOpen(last.uri) /\ WordOfRequest # NoWord
                                 /\ WordOfRequest \in DOMAIN symbolInfoMap
              THEN Markup(WordOfRequest, symbolInfoMap[WordOfRequest])
              ELSE NullResponse)
    /\ last.op \in PositionOps => last.response # Raised

\* a definition request on a word that the table, which is not empty, does
\* not have
C19_Witness ==
    /\ last.op = "definition"
    /\ IsOpen(last.uri)
    /\ WordOfRequest # NoWord
    /\ symbolTable # EmptyMap
    /\ WordOfRequest \notin DOMAIN symbolTable
    /\ last.response = NullResponse

\* C22: no handler throws on a text the parser rejects: an indexing pass
\* over it returns, and a document symbol request for an open document with
\* such a text answers with the empty list.  The handler parses outside any
\* try (server.ts:326).
C22_ParseFailureNotRaised ==
    /\ (last.indexed /\ getAST(last.text) = NoAst) => last.response # Raised
    /\ (last.op = "documentSymbol" /\ IsOpen(last.uri)
           /\ getAST(documents[last.uri].text) = NoAst)
          => last.response = << >>

DocumentOps == {"definition", "hover", "diagnostics", "documentSymbol", "codeAction"}

\* what a request answers when it has nothing to return
NoneOf(op) ==
    CASE op \in PositionOps -> NullResponse
      [] op = "diagnostics" -> [kind |-> "full", items |-> << >>]
      [] OTHER -> << >>

\* C20: a definition, hover, diagnostics, document symbol or code action
\* request for a document that is not open answers with null or the empty
\* list, does not throw, and changes nothing.
C20_MissingDocumentIsNone ==
    [][ (last'.op \in DocumentOps /\ ~IsOpen(last'.uri))
          => /\ last'.response = NoneOf(last'.op)
             /\ last'.response # Raised
             /\ UNCHANGED <<documents, astMap, symbolTable, symbolInfoMap,
                            updateSymbolTimeout, timers>>
      ]_vars

\* a code action request for a closed document with a fixable diagnostic,
\* while the other document is open and indexed
C20_Witness ==
    /\ last.op = "codeAction"
    /\ ~IsOpen(last.uri)
    /\ \E i \in DOMAIN last.context : last.context[i].message = MsgBefore
    /\ last.response = << >>
    /\ documents # EmptyMap
    /\ symbolTable # EmptyMap

-----------------------------------------------------------------------------
(* The lint rule as a function of its text: the text is drawn from the     *)
(* concatenations of a few pieces and checkFunctionSpaces is applied to it.*)

\* a violating call, blanks, line breaks, comment markers and a quote
CommentPieces ==
    { <<"f", "(", "a", ")">>, <<" ">>, <<"\n">>, <<"/", "*">>, <<"*", "/">>,
      <<"/", "/">>, <<"\"">> }

\* names, parentheses, blanks, line breaks and two inner calls
CallPieces ==
    { <<"f">>, <<"(">>, <<"f", "(">>, <<")">>, <<" ", ")">>, <<" ">>, <<"\n">>,
      <<"g", "(", "f", ")">>, <<"g", "(", " ", "f", " ", ")">> }

RECURSIVE TextsOf(_, _)
TextsOf(pieces, n) ==
    IF n = 0 THEN { << >> }
    ELSE LET shorter == TextsOf(pieces, n - 1)
         IN  shorter \cup { s \o p : s \in shorter, p \in pieces }

LintInit(texts) ==
    /\ documents = EmptyMap
    /\ astMap = EmptyMap
    /\ symbolTable = EmptyMap
    /\ symbolInfoMap = EmptyMap
    /\ updateSymbolTimeout = Null
    /\ timers = {}
    /\ last = NoPass
    /\ text \in texts
    /\ diagnostics = << >>
    /\ lintDone = FALSE
    /\ isInCommentBlock = FALSE
    /\ flagBefore = FALSE
    /\ firstCall = NoCall
    /\ files = EmptyMap
    /\ callStack = << >>

\* the first call of checkFunctionSpaces(text, uri)
Lint ==
    /\ ~lintDone
    /\ diagnostics' = checkFunctionSpacesFrom(text, isInCommentBlock)
    /\ isInCommentBlock' = FlagAtReturn(SplitLines(text), 0, FlagAtEntry(isInCommentBlock))
    /\ flagBefore' = isInCommentBlock
    /\ firstCall' = [text |-> text, diagnostics |-> diagnostics']
    /\ lintDone' = TRUE
    /\ UNCHANGED text
    /\ UNCHANGED serverVars
    /\ UNCHANGED includeVars

\* a later call of checkFunctionSpaces, on the text t
LintAgain(t) ==
    /\ lintDone
    /\ text' = t
    /\ diagnostics' = checkFunctionSpacesFrom(t, isInCommentBlock)
    /\ isInCommentBlock' = FlagAtReturn(SplitLines(t), 0, FlagAtEntry(isInCommentBlock))
    /\ flagBefore' = isInCommentBlock
    /\ UNCHANGED <<lintDone, firstCall>>
    /\ UNCHANGED serverVars
    /\ UNCHANGED includeVars

CommentInit == LintInit(TextsOf(CommentPieces, MaxCommentPieces))

CallInit == LintInit(TextsOf(CallPieces, MaxCallPieces))

LintNext == Lint

CommentSpec == CommentInit /\ [][LintNext]_vars

CallSpec == CallInit /\ [][LintNext]_vars

\* The quick fix.  A document with a text of calls is opened, which indexes
\* it and arms the debounce timeout; the client lints the text; the document
\* may change or close, a code action is requested for diagnostics of the
\* lint, an edit of the answer is applied, the changed text is linted, and
\* the timeout fires whenever it is pending.
FixUri == "file:///a.afl"

\* what the document is changed to behind the lint: another call, a text
\* with a ')' in every column a diagnostic can end at, and a call that has
\* lost its closing parenthesis
StaleTexts ==
    { <<"g", "(", "f", ")">>, <<")", ")", ")", ")", ")", ")", ")", ")", ")", ")", ")", ")">>,
      <<"f", "(", " ", "f">> }

\* a call opened with and without a blank, an inner call, closing
\* parentheses with and without a blank, a name and a line break
FixPieces ==
    { <<"f", "(", " ">>, <<"f", "(">>, <<"g", "(", "f", ")">>, <<")">>, <<" ", ")">>,
      <<"f">>, <<"\n">> }

\* nothing is open; text is the text the document is opened with
FixInit == LintInit(TextsOf(FixPieces, MaxFixPieces))

\* the diagnostics of a request: all of the lint's; or one of them
RequestDiagnostics ==
    {diagnostics} \cup { <<diagnostics[i]>> : i \in DOMAIN diagnostics }

FixNext ==
    \/ last.op = "none" /\ DidOpen(FixUri, text, "afl")
    \/ IsOpen(FixUri) /\ Lint
    \/ lintDone /\ IsOpen(FixUri) /\ documents[FixUri].text = text
          /\ last.op \in {"open", "timer"}
          /\ \E t \in StaleTexts : DidChange(FixUri, t)
    \/ lintDone /\ IsOpen(FixUri) /\ documents[FixUri].text = text
          /\ last.op \in {"open", "timer"} /\ DidClose(FixUri)
    \/ lintDone /\ text = firstCall.text /\ last.op # "codeAction" /\ last.context = << >>
          /\ (IF IsOpen(FixUri) THEN documents[FixUri].text \in {text} \cup StaleTexts
                                 ELSE TRUE)
          /\ \E diags \in RequestDiagnostics : OnCodeAction(FixUri, diags)
    \/ \E k \in DOMAIN last.response : ApplyFix(k)
    \/ IsOpen(FixUri) /\ documents[FixUri].text # text /\ LintAgain(documents[FixUri].text)
    \/ \E t \in timers : TimerFire(t)

FixSpec == FixInit /\ [][FixNext]_vars

\* The position resolver as a function of a line and a column: the line is
\* drawn from the concatenations of a few pieces and getWordAtPosition is
\* applied to it at one column.

\* a letter, a name with a digit, a digit, an underscore, a blank, a parenthesis
WordPieces == { <<"a">>, <<"f", "2">>, <<"2">>, <<"_">>, <<" ">>, <<"(">> }

WordInit == LintInit(TextsOf(WordPieces, MaxWordPieces))

\* a call of getWordAtPosition(text, char)
GetWord(char) ==
    /\ last.op = "none"
    /\ last' = Request("wordAt", "", [line |-> 0, character |-> char],
                       getWordAtPosition(text, char))
    /\ UNCHANGED <<documents, astMap, symbolTable, symbolInfoMap, updateSymbolTimeout,
                   timers>>
    /\ UNCHANGED lintVars
    /\ UNCHANGED includeVars

WordNext == \E char \in 0..(Len(text) + 1) : GetWord(char)

WordSpec == WordInit /\ [][WordNext]_vars

\* columns s..e-1 of the line are a maximal identifier: a letter or an
\* underscore at s, letters, digits and underscores up to e, none of them at
\* e, and the word characters right before s are digits only
IsIdentifierRun(line, s, e) ==
    /\ 0 <= s /\ s < e /\ e <= Len(line)
    /\ IsIdentStart(At(line, s))
    /\ \A i \in s..(e - 1) : IsWordChar(At(line, i))
    /\ e = Len(line) \/ ~IsWordChar(At(line, e))
    /\ \A p \in 0..(s - 1) :
          (\A q \in p..(s - 1) : IsWordChar(At(line, q))) => ~IsIdentStart(At(line, p))

IdentifierRuns(line) ==
    {r \in [s : 0..Len(line), e : 0..Len(line)] : IsIdentifierRun(line, r.s, r.e)}

\* C17: for a maximal identifier at columns [s, e) of the line,
\* getWordAtPosition returns it at every column from s to e, e included; at
\* a column in no such span (between identifiers, before the first, past the
\* end of the line) it returns null.
C17_WordAtInclusive ==
    last.op = "wordAt" =>
        LET char == last.position.character
            hit == {r \in IdentifierRuns(text) : r.s <= char /\ char <= r.e}
        IN  /\ \A r \in hit : last.response = Slice(text, r.s, r.e)
            /\ hit = {} => last.response = NoWord

\* the column right behind an identifier that is not the end of the line
C17_Witness ==
    /\ last.op = "wordAt"
    /\ last.position.character < Len(text)
    /\ \E r \in IdentifierRuns(text) :
          /\ r.e = last.position.character
          /\ r.e - r.s = 2
          /\ last.response = Slice(text, r.s, r.e)

\* stripStrings as a function of a line: the line is drawn from the
\* concatenations of a few pieces and stripStrings is applied to it.

\* a double quote, a backslash, a letter, a closing parenthesis, a blank
StripPieces == { <<"\"">>, <<"\\">>, <<"a">>, <<")">>, <<" ">> }

StripInit == LintInit(TextsOf(StripPieces, MaxStripPieces))

\* a call of stripStrings(text)
StripStrings ==
    /\ last.op = "none"
    /\ last' = Request("stripStrings", "", NoPosition, stripStrings(text))
    /\ UNCHANGED <<documents, astMap, symbolTable, symbolInfoMap, updateSymbolTimeout,
                   timers>>
    /\ UNCHANGED lintVars
    /\ UNCHANGED includeVars

StripNext == StripStrings

StripSpec == StripInit /\ [][StripNext]_vars

\* the column of the double quote that closes a literal whose content
\* starts at column j: a backslash takes the character behind it along;
\* -1 when the line ends before
RECURSIVE ClosingQuote(_, _)
ClosingQuote(line, j) ==
    IF j >= Len(line) THEN -1
    ELSE IF At(line, j) = "\\" THEN ClosingQuote(line, j + 2)
    ELSE IF At(line, j) = "\"" THEN j
    ELSE ClosingQuote(line, j + 1)

\* the line from column i on with every double-quoted literal blanked
RECURSIVE LiteralsBlanked(_, _)
LiteralsBlanked(line, i) ==
    IF i >= Len(line) THEN << >>
    ELSE IF At(line, i) = "\"" /\ ClosingQuote(line, i + 1) # -1
    THEN Blanks(ClosingQuote(line, i + 1) - i + 1)
         \o LiteralsBlanked(line, ClosingQuote(line, i + 1) + 1)
    ELSE <<At(line, i)>> \o LiteralsBlanked(line, i + 1)

\* C29: stripStrings returns a line of the same length in which every
\* double-quoted literal, quotes and escaped characters included, is blanks
\* and every character outside a literal is what it was.  The pattern of
\* the code asks for a backslash before each of the two quotes.
C29_StringsStripped ==
    last.op = "stripStrings" =>
        /\ Len(last.response) = Len(text)
        /\ last.response = LiteralsBlanked(text, 0)

-----------------------------------------------------------------------------
(* symbolTable.ts:126-187: the line-based indexer, which follows include   *)
(* directives.  The files are those of one directory, a file's uri is its  *)
(* path, and an include path is resolved to the file of that name.         *)

FunctionWord == <<"f", "u", "n", "c", "t", "i", "o", "n">>
IncludeWord == <<"#", "i", "n", "c", "l", "u", "d", "e">>
OnceWord == <<"_", "o", "n", "c", "e">>

\* no match
NoName == << >>

\* /\bfunction\s+([A-Za-z_][A-Za-z0-9_]*)\b/ tried at column p: the name
FuncMatchAt(line, p) ==
    IF /\ p + Len(FunctionWord) <= Len(line)
       /\ Slice(line, p, p + Len(FunctionWord)) = FunctionWord
       /\ (p = 0 \/ ~IsWordChar(At(line, p - 1)))
    THEN LET q == SkipSpaces(line, p + Len(FunctionWord))
         IN  IF q > p + Len(FunctionWord) /\ q < Len(line) /\ IsIdentStart(At(line, q))
             THEN Slice(line, q, SkipWord(line, q))
             ELSE NoName
    ELSE NoName

\* line.match of symbolTable.ts:138: the name of the leftmost match
RECURSIVE FuncMatchFrom(_, _)
FuncMatchFrom(line, p) ==
    IF p >= Len(line) THEN NoName
    ELSE IF FuncMatchAt(line, p) # NoName THEN FuncMatchAt(line, p)
    ELSE FuncMatchFrom(line, p + 1)

\* line.match(/^([A-Za-z_][A-Za-z0-9_]*)\s*=/) of symbolTable.ts:147
VarMatch(line) ==
    IF Len(line) > 0 /\ IsIdentStart(At(line, 0))
    THEN LET q == SkipSpaces(line, SkipWord(line, 0))
         IN  IF q < Len(line) /\ At(line, q) = "=" THEN Slice(line, 0, SkipWord(line, 0))
             ELSE NoName
    ELSE NoName

RECURSIVE SkipPath(_, _)
\* the first column >= i whose character is a double quote or a '>'
SkipPath(line, i) ==
    IF i < Len(line) /\ At(line, i) \notin {"\"", ">"} THEN SkipPath(line, i + 1) ELSE i

\* /#include(?:_once)?\s*[<"]([^">]+)[>"]/ tried at column p: the path
IncludeMatchAt(line, p) ==
    IF p + Len(IncludeWord) <= Len(line) /\ Slice(line, p, p + Len(IncludeWord)) = IncludeWord
    THEN LET w == p + Len(IncludeWord)
             o == IF w + Len(OnceWord) <= Len(line)
                     /\ Slice(line, w, w + Len(OnceWord)) = OnceWord
                  THEN w + Len(OnceWord) ELSE w
             q == SkipSpaces(line, o)
             r == SkipPath(line, q + 1)
         IN  IF /\ q < Len(line) /\ At(line, q) \in {"<", "\""}
                /\ r > q + 1 /\ r < Len(line)
             THEN Slice(line, q + 1, r)
             ELSE NoName
    ELSE NoName

\* line.match of symbolTable.ts:156: the path of the leftmost match
RECURSIVE IncludeMatchFrom(_, _)
IncludeMatchFrom(line, p) ==
    IF p >= Len(line) THEN NoName
    ELSE IF IncludeMatchAt(line, p) # NoName THEN IncludeMatchAt(line, p)
    ELSE IncludeMatchFrom(line, p + 1)

\* symbolTable.ts:141-142 and 150-151: the location of a name of line i,
\* from the first column the name is at
LocationOfName(uri, line, i, name) ==
    Location(uri, i, IndexOfFrom(line, name, 0),
             i, IndexOfFrom(line, name, 0) + Len(name))

\* symbolTable.ts:139-154: the table after line i of the file uri: the
\* function name is set, then the variable name
TableOfLine(table, uri, line, i) ==
    LET f == FuncMatchFrom(line, 0)
        v == VarMatch(line)
        t1 == IF f # NoName THEN MapSet(table, f, LocationOfName(uri, line, i, f))
              ELSE table
    IN  IF v # NoName THEN MapSet(t1, v, LocationOfName(uri, line, i, v)) ELSE t1

\* ... and symbolInfoMap after it
InfoOfLine(infoMap, line, i) ==
    LET f == FuncMatchFrom(line, 0)
        v == VarMatch(line)
        m1 == IF f # NoName
              THEN MapSet(infoMap, f, <<"User-defined function at line ", i + 1>>)
              ELSE infoMap
    IN  IF v # NoName THEN MapSet(m1, v, <<"Variable defined at line ", i + 1>>)
        ELSE m1

\* no include is followed
ExistsNever(path) == FALSE

\* symbolTable.ts:160 fs.existsSync(fullPath)
ExistsSync(path) == MapHas(files, path)

\* a call analyzeText(content, uri) that has read the lines before line i;
\* exhausted: the stack was exhausted in this call or in one it made
Frame(uri, content) ==
    [uri |-> uri, lines |-> SplitLines(content), i |-> 0, table |-> EmptyMap,
     exhausted |-> FALSE]

Top == callStack[Len(callStack)]

\* the include of the line the innermost call is at, when its file exists
IncludeOfTop ==
    LET path == IncludeMatchFrom(At(Top.lines, Top.i), 0)
    IN  IF path # NoName /\ ExistsSync(path) THEN path ELSE NoName

\* the file paths, the include path that names no file, and the lines a
\* file is made of: an include of each of the three, an assignment, a
\* function
FilePaths == { <<"a">>, <<"b">> }

FileLines ==
    { IncludeWord \o <<" ", "\"", "a", "\"">>,
      IncludeWord \o OnceWord \o <<"<", "b", ">">>,
      IncludeWord \o <<" ", "\"", "c", "\"">>,
      <<"x", " ", "=", " ", "2">>,
      FunctionWord \o <<" ", "f">> }

RECURSIVE FileTexts(_)
\* the texts of up to n lines
FileTexts(n) ==
    IF n = 0 THEN { << >> }
    ELSE FileTexts(n - 1)
         \cup FileLines
         \cup {t \o <<"\n">> \o l : t \in FileTexts(n - 1) \ { << >> }, l \in FileLines}

\* no file is written yet
IncludeInit ==
    /\ files = EmptyMap
    /\ callStack = << >>
    /\ documents = EmptyMap
    /\ astMap = EmptyMap
    /\ symbolTable = EmptyMap
    /\ symbolInfoMap = EmptyMap
    /\ updateSymbolTimeout = Null
    /\ timers = {}
    /\ last = NoPass
    /\ text = << >>
    /\ diagnostics = << >>
    /\ lintDone = FALSE
    /\ isInCommentBlock = FALSE
    /\ flagBefore = FALSE
    /\ firstCall = NoCall

\* the files of the directory are written, before any call
WriteFiles(contents) ==
    /\ files = EmptyMap /\ callStack = << >> /\ last.op = "none"
    /\ files' = contents
    /\ UNCHANGED <<callStack, symbolInfoMap, last>>

\* symbolTable.ts:133-135: analyzeText is called on the file path
AnalyzeFile(path) ==
    /\ callStack = << >> /\ last.op = "none"
    /\ MapHas(files, path)
    /\ callStack' = <<Frame(path, files[path])>>
    /\ UNCHANGED <<files, symbolInfoMap, last>>

\* symbolTable.ts:137-166: a line without an include to follow: it names
\* none, or existsSync answers false.  With the stack at its limit
\* existsSync also answers false for a file that exists, when the stack is
\* exhausted inside existsSync, which catches what its path validation throws
IndexLine ==
    /\ callStack # << >> /\ Top.i < Len(Top.lines)
    /\ IncludeOfTop = NoName \/ Len(callStack) >= MaxIncludeDepth
    /\ callStack' = [callStack EXCEPT
                       ![Len(callStack)].table =
                           TableOfLine(Top.table, Top.uri, At(Top.lines, Top.i), Top.i),
                       ![Len(callStack)].i = Top.i + 1,
                       ![Len(callStack)].exhausted =
                           Top.exhausted \/ IncludeOfTop # NoName]
    /\ symbolInfoMap' = InfoOfLine(symbolInfoMap, At(Top.lines, Top.i), Top.i)
    /\ UNCHANGED <<files, last>>

\* symbolTable.ts:156-162: a line whose include names a file that exists:
\* the file is read and analyzeText is called on it.  Nothing in the code
\* bounds the depth of these calls: with the stack at its limit the call
\* exhausts it, and the RangeError of the engine, which no call catches,
\* ends every call in progress
FollowInclude ==
    /\ callStack # << >> /\ Top.i < Len(Top.lines)
    /\ IncludeOfTop # NoName
    /\ IF Len(callStack) < MaxIncludeDepth
       THEN /\ callStack' =
                 Append([callStack EXCEPT
                           ![Len(callStack)].table =
                               TableOfLine(Top.table, Top.uri, At(Top.lines, Top.i),
                                           Top.i)],
                        Frame(IncludeOfTop, files[IncludeOfTop]))
            /\ UNCHANGED last
       ELSE /\ callStack' = << >>
            /\ last' = Request("RangeError", "", NoPosition,
                               [uri |-> callStack[1].uri, table |-> EmptyMap,
                                exhausted |-> TRUE])
    /\ symbolInfoMap' = InfoOfLine(symbolInfoMap, At(Top.lines, Top.i), Top.i)
    /\ UNCHANGED files

\* symbolTable.ts:168 return table: the outermost call answers; an inner
\* one hands its table to line 163 of its caller, which sets every entry
\* and goes on with its next line
ReturnTable ==
    /\ callStack # << >> /\ Top.i = Len(Top.lines)
    /\ IF Len(callStack) = 1
       THEN /\ callStack' = << >>
            /\ last' = Request("analyzeText", "", NoPosition,
                               [uri |-> Top.uri, table |-> Top.table,
                                exhausted |-> Top.exhausted])
       ELSE /\ callStack' =
                 [SubSeq(callStack, 1, Len(callStack) - 1) EXCEPT
                    ![Len(callStack) - 1].table =
                        MergeSymbols(callStack[Len(callStack) - 1].table, Top.table),
                    ![Len(callStack) - 1].i = callStack[Len(callStack) - 1].i + 1,
                    ![Len(callStack) - 1].exhausted =
                        callStack[Len(callStack) - 1].exhausted \/ Top.exhausted]
            /\ UNCHANGED last
    /\ UNCHANGED <<files, symbolInfoMap>>

IncludeNext ==
    /\ \/ /\ files = EmptyMap
          /\ \E ta \in FileTexts(MaxFileLines), tb \in FileTexts(MaxIncludedLines) :
                 WriteFiles([p \in FilePaths |-> IF p = <<"a">> THEN ta ELSE tb])
       \/ \E path \in FilePaths : AnalyzeFile(path)
       \/ IndexLine
       \/ FollowInclude
       \/ ReturnTable
    /\ UNCHANGED <<documents, astMap, symbolTable, updateSymbolTimeout, timers>>
    /\ UNCHANGED lintVars

IncludeSpec == IncludeInit /\ [][IncludeNext]_vars

\* the file an include line of FileLines names: the character before the
\* closing quote or bracket; NoName for the other lines and for a file
\* that does not exist
IncludeTarget(line) ==
    IF /\ Len(line) > Len(IncludeWord)
       /\ SubSeq(line, 1, Len(IncludeWord)) = IncludeWord
       /\ <<line[Len(line) - 1]>> \in DOMAIN files
    THEN <<line[Len(line) - 1]>> ELSE NoName

TargetsOf(lines) == [k \in DOMAIN lines |-> IncludeTarget(lines[k])]

\* the include graph of the files: for each file, line by line, the file
\* the line includes
IncludeGraph == [p \in DOMAIN files |-> TargetsOf(SplitLines(files[p]))]

\* the files that file p of the graph g includes
IncludedBy(g, p) == {g[p][k] : k \in DOMAIN g[p]} \ {NoName}

RECURSIVE IncludeClosure(_, _, _)
\* the files reached from those of the set by chains of includes
IncludeClosure(g, set, n) ==
    IF n = 0 THEN set
    ELSE IncludeClosure(g, set \cup UNION {IncludedBy(g, p) : p \in set}, n - 1)

Reaches(g, p) == IncludeClosure(g, IncludedBy(g, p), Cardinality(FilePaths))

\* an include chain from p comes back to a file it has been at
OnCycle(g, p) == \E q \in {p} \cup Reaches(g, p) : q \in Reaches(g, q)

\* the names the lines of file p define
NamesOf(p) ==
    {FuncMatchFrom(SplitLines(files[p])[k], 0) : k \in DOMAIN SplitLines(files[p])}
    \cup {VarMatch(SplitLines(files[p])[k]) : k \in DOMAIN SplitLines(files[p])}

\* the file of the outermost call in progress, of the call that returned a
\* table, and of the call that ended with the engine's RangeError
Running == IF callStack # << >> THEN {callStack[1].uri} ELSE {}
Returned == IF last.op = "analyzeText" THEN {last.response.uri} ELSE {}
Thrown == IF last.op = "RangeError" THEN {last.response.uri} ELSE {}

RECURSIVE StepsOf(_, _, _)
RECURSIVE StepsFrom(_, _, _, _)
\* the steps a call on file p takes when no chain from p comes back: one for
\* each line, those of the call on each file a line includes, and the
\* return; n bounds the length of the chains
StepsOf(g, p, n) ==
    IF n = 0 THEN 0 ELSE StepsFrom(g, p, 1, n - 1) + 1

\* ... and the steps of the lines of p from the k-th on
StepsFrom(g, p, k, n) ==
    IF k > Len(g[p]) THEN 0
    ELSE 1 + (IF g[p][k] # NoName THEN StepsOf(g, g[p][k], n) ELSE 0)
           + StepsFrom(g, p, k + 1, n)

RECURSIVE Remaining(_, _, _)
\* the steps the calls of the stack up to call j have left: the innermost
\* call from its line on, a call that waits for an include from the line
\* after it, and the return of each
Remaining(g, stack, j) ==
    IF j = 0 THEN 0
    ELSE Remaining(g, stack, j - 1) + 1
           + StepsFrom(g, stack[j].uri,
                       IF j = Len(stack) THEN stack[j].i + 1 ELSE stack[j].i + 2,
                       Cardinality(FilePaths))

\* what a call on a file none of whose include chains comes back does:
\* it is never held up, each of its steps takes one from the finite number
\* of steps it has left, and it returns a table with the names of the file
\* and of every file its chains reach, the stack never exhausted
AcyclicCallsReturn ==
    [][ \A g \in {IncludeGraph} :
            /\ \A p \in Running :
                  ~OnCycle(g, p)
                    => /\ Remaining(g, callStack', Len(callStack'))
                            = Remaining(g, callStack, Len(callStack)) - 1
                       /\ Len(callStack') <= Cardinality(FilePaths)
                       /\ callStack' = << >> => Returned' = {p}
            /\ \A p \in Returned' :
                  ~OnCycle(g, p)
                    => /\ ~last'.response.exhausted
                       /\ DOMAIN last'.response.table
                            = UNION {NamesOf(q) : q \in {p} \cup Reaches(g, p)} \ {NoName}
      ]_vars

\* C30 as stated: a call of the line-based analyzeText on a file whose
\* include chains come back to no file terminates, with the names of every
\* file its chains reach; a call on a file with a chain that comes back to
\* itself, or to a file it includes, never terminates: no call that has
\* ended, with a table or with an error, was one on such a file.  The
\* recursion ends when the call stack is exhausted.
C30_IncludeChains ==
    /\ AcyclicCallsReturn
    /\ [][\A p \in Returned' \cup Thrown' : \A g \in {IncludeGraph} : ~OnCycle(g, p)]_vars

\* C30, amended: ... a call on a file with a chain that comes back goes on
\* until the call stack is exhausted and ends only by that: with the
\* RangeError of the engine, or, where existsSync has swallowed it, with a
\* table after the include at the limit was skipped; a call on a file
\* without such a chain never exhausts the stack.
C30_IncludeChainsToExhaustion ==
    /\ AcyclicCallsReturn
    /\ [][\A p \in Returned' \cup Thrown' : \A g \in {IncludeGraph} :
             OnCycle(g, p) <=> last'.response.exhausted]_vars
    /\ [][\A p \in Running :
             (callStack' = << >> /\ Thrown' # {})
               => /\ \A g \in {IncludeGraph} : OnCycle(g, p)
                  /\ Len(callStack) = MaxIncludeDepth
                  /\ IncludeOfTop # NoName]_vars

\* the call on a file that includes the other one, which includes the first
\* again, has ended with the RangeError
C30_Witness ==
    \E p \in Thrown : \E g \in {IncludeGraph} :
        \E q \in Reaches(g, p) \ {p} : p \in Reaches(g, q)

DiagnosticsOf(diags) == {diags[i] : i \in DOMAIN diags}

\* C13: when the edit of the action for an "Expected space before ')'"
\* diagnostic of the lint has been applied to the text that was linted, the
\* lint of the changed text has no diagnostic that starts where that one
\* started.
C13_QuickFixResolves ==
    [][ ( /\ last.op = "change" /\ last.context # << >>
          /\ last.response.text = text
          /\ last.context[1] \in DiagnosticsOf(diagnostics)
          /\ last.context[1].message = MsgBefore
          /\ text' = last.text /\ text' # text )
        => \A i \in DOMAIN diagnostics' :
              diagnostics'[i].range.start # last.context[1].range.start
      ]_vars

\* f( g(f)) was linted, the edit for the outer call made it f( g(f) ), and
\* the lint of that has the diagnostic of the inner call only
C13_Witness ==
    /\ last.op = "change" /\ last.context = << Diagnostic(0, 0, 8, MsgBefore) >>
    /\ last.response.text = firstCall.text
    /\ firstCall.text = <<"f", "(", " ", "g", "(", "f", ")", ")">>
    /\ firstCall.diagnostics
         = << Diagnostic(0, 0, 8, MsgBefore), Diagnostic(0, 3, 7, MsgBoth) >>
    /\ text = <<"f", "(", " ", "g", "(", "f", ")", " ", ")">>
    /\ documents[FixUri].text = text
    /\ diagnostics = << Diagnostic(0, 3, 7, MsgBoth) >>

\* the actions of the last answer made for the diagnostic d
ActionsFor(d) == {k \in DOMAIN last.response : last.response[k].diagnostics = <<d>>}

\* newText is span with one blank put in right before its last ')'
BlankBeforeLastParen(span, newText) ==
    /\ Len(newText) = Len(span) + 1
    /\ \E p \in 0..(Len(span) - 1) :
          /\ At(span, p) = ")"
          /\ \A q \in (p + 1)..(Len(span) - 1) : At(span, q) # ")"
          /\ \A i \in 0..(p - 1) : At(newText, i) = At(span, i)
          /\ At(newText, p) = " "
          /\ \A i \in p..(Len(span) - 1) : At(newText, i + 1) = At(span, i)

\* C28: for a fixable diagnostic of a code action request on the open
\* document: when the live text in its range has a ')' the answer has one
\* action for it, whose edit has the diagnostic's range and whose new text is
\* the live text of the range with one blank put in right before its last
\* ')'; when it has none the answer has no action for it.
C28_QuickFixEditShape ==
    (last.op = "codeAction" /\ IsOpen(last.uri)) =>
        \A d \in DiagnosticsOf(last.context) :
            d.message = MsgBefore =>
                LET span == GetText(documents[last.uri].text, d.range)
                IN  IF \E i \in DOMAIN span : span[i] = ")"
                    THEN /\ ActionsFor(d) # {}
                         /\ \A k \in ActionsFor(d) :
                               /\ last.response[k].edit.range = d.range
                               /\ last.response[k].edit.uri = last.uri
                               /\ BlankBeforeLastParen(span, last.response[k].edit.newText)
                    ELSE ActionsFor(d) = {}

\* an edit for a range whose live text has two ')': the blank stands
\* before the second
C28_Witness ==
    /\ last.op = "codeAction" /\ IsOpen(last.uri)
    /\ \E k \in DOMAIN last.response :
          LET span == GetText(documents[last.uri].text, last.response[k].edit.range)
          IN  /\ Cardinality({i \in DOMAIN span : span[i] = ")"}) >= 2
              /\ BlankBeforeLastParen(span, last.response[k].edit.newText)
              /\ last.response[k].edit.newText[Len(span)] = " "

\* C14: every action of a code action answer is for a diagnostic of the
\* request whose message is "Expected space before ')'"; a diagnostic with
\* one of the other two messages gets no action.
C14_QuickFixAsymmetry ==
    last.op = "codeAction" =>
        /\ \A k \in DOMAIN last.response :
              /\ Len(last.response[k].diagnostics) = 1
              /\ last.response[k].diagnostics[1] \in DiagnosticsOf(last.context)
              /\ last.response[k].diagnostics[1].message = MsgBefore
        /\ \A i \in DOMAIN last.context :
              last.context[i].message \in {MsgAfter, MsgBoth}
                => \A k \in DOMAIN last.response :
                      last.response[k].diagnostics # << last.context[i] >>

\* a request with a diagnostic of each kind over live text with a ')' in
\* every range: one action, for the "Expected space before ')'" one
C14_Witness ==
    /\ last.op = "codeAction"
    /\ IsOpen(last.uri)
    /\ \E i, j \in DOMAIN last.context :
          /\ last.context[i].message = MsgBefore
          /\ last.context[j].message \in {MsgAfter, MsgBoth}
          /\ Includes(GetText(documents[last.uri].text, last.context[j].range), <<")">>)
    /\ Len(last.response) = 1
    /\ last.response[1].diagnostics[1].message = MsgBefore

\* C15: a code action answer has an action for a diagnostic only when the
\* document is open and the live text of the diagnostic's range is still the
\* text that was flagged.  The code edits whatever the range now holds.
C15_NoFixOnStaleRange ==
    last.op = "codeAction" =>
        \A k \in DOMAIN last.response :
            LET d == last.response[k].diagnostics[1]
            IN  /\ IsOpen(last.uri)
                /\ GetText(documents[last.uri].text, d.range) = GetText(text, d.range)

\* texts linted after the first one: a comment left open, a comment closed,
\* a violating call alone and behind an opened comment
LaterTexts ==
    { <<"/", "*">>, <<"*", "/">>, <<"f", "(", "a", ")">>,
      <<"/", "*", "\n", "f", "(", "a", ")">> }

CallsInit == LintInit(TextsOf(CommentPieces, MaxCallsPieces))

\* a first call, then calls on the later texts and on the first text again
CallsNext ==
    \/ Lint
    \/ \E t \in LaterTexts \cup {firstCall.text} : LintAgain(t)

CallsSpec == CallsInit /\ [][CallsNext]_vars

\* C11: whatever calls were made before, and whatever state of the comment
\* block they ended in, a call of checkFunctionSpaces on a text returns what
\* the first call of the run returned on that text.
C11_NoLeakAcrossCalls ==
    (lintDone /\ text = firstCall.text) => diagnostics = firstCall.diagnostics

\* a text with a diagnostic is linted again, with the same result, right
\* after a call that ended inside an unterminated block comment
C11_Witness ==
    /\ lintDone
    /\ flagBefore
    /\ text = firstCall.text
    /\ diagnostics # << >>
    /\ diagnostics = firstCall.diagnostics

-----------------------------------------------------------------------------
(* Claims about checkFunctionSpaces.  The calls of a line are described    *)
(* here without the scan: a call site is a column where the call pattern   *)
(* matches and whose parenthesis has a partner on the line, the partner    *)
(* being the first column up to which as many parentheses close as open.   *)

Lines == SplitLines(text)

\* the offsets of the text that lie in a block comment, markers included;
\* a line comment runs to the end of its line
RECURSIVE CommentOffsets(_, _, _)
CommentOffsets(t, i, mode) ==
    IF i >= Len(t) THEN {}
    ELSE LET two == IF i + 1 < Len(t) THEN <<At(t, i), At(t, i + 1)>> ELSE << >>
         IN  CASE mode = "block" ->
                    IF two = <<"*", "/">>
                    THEN {i, i + 1} \cup CommentOffsets(t, i + 2, "code")
                    ELSE {i} \cup CommentOffsets(t, i + 1, "block")
               [] mode = "line" ->
                    CommentOffsets(t, i + 1, IF At(t, i) = "\n" THEN "code" ELSE "line")
               [] OTHER ->
                    IF two = <<"/", "*">>
                    THEN {i, i + 1} \cup CommentOffsets(t, i + 2, "block")
                    ELSE IF two = <<"/", "/">>
                    THEN CommentOffsets(t, i + 2, "line")
                    ELSE CommentOffsets(t, i + 1, "code")

InBlockComment(k, c) == (LineOffset(Lines, k) + c) \in CommentOffsets(text, 0, "code")

\* C6: no diagnostic is reported at a call inside a block comment (the
\* opening line, the closing line and a comment on one line included), on a
\* line-comment line, or on a line with a double quote.  The code lints the
\* line on which a block comment closes.
C6_SkippedLinesSilent ==
    lintDone =>
        \A i \in DOMAIN diagnostics :
            LET at == diagnostics[i].range.start
            IN  /\ ~InBlockComment(at.line, at.character)
                /\ ~IsLineComment(At(Lines, at.line))
                /\ ~Includes(At(Lines, at.line), <<"\"">>)

\* the state is INSIDE after line k: some line up to k has the opening marker
\* and no line from that one to k has the closing marker
InsideAfter(lines, k) ==
    \E j \in 0..k :
        /\ Includes(At(lines, j), <<"/", "*">>)
        /\ \A i \in j..k : ~Includes(At(lines, i), <<"*", "/">>)

\* the diagnostics of line k, in the order reported
DiagnosticsOfLine(k) == SelectSeq(diagnostics, LAMBDA d : d.range.start.line = k)

\* C27: the state after a line is INSIDE iff the line has the opening marker
\* or the state before it was INSIDE, and the line has no closing marker,
\* wherever the two markers stand on the line; a line is linted only when
\* the state after it is OUTSIDE, and the flag at the end of the call is the
\* state after the last line.
C27_CommentBlockTransition ==
    lintDone =>
        /\ isInCommentBlock = InsideAfter(Lines, Len(Lines) - 1)
        /\ \A k \in 0..(Len(Lines) - 1) :
              /\ InsideAfter(Lines, k)
                    = (/\ \/ Includes(At(Lines, k), <<"/", "*">>)
                          \/ k > 0 /\ InsideAfter(Lines, k - 1)
                       /\ ~Includes(At(Lines, k), <<"*", "/">>))
              /\ DiagnosticsOfLine(k) =
                    IF \/ InsideAfter(Lines, k)
                       \/ IsLineComment(At(Lines, k))
                       \/ Includes(At(Lines, k), <<"\"">>)
                    THEN << >>
                    ELSE ScanLine(stripStrings(RemoveLineComment(At(Lines, k))), k, 0)

\* a line that closes the comment the line before opened, has a call, and
\* opens a comment again behind it: it is linted and the call ends OUTSIDE
C27_Witness ==
    /\ lintDone
    /\ ~isInCommentBlock
    /\ \E k \in 1..(Len(Lines) - 1) :
          /\ InsideAfter(Lines, k - 1)
          /\ IndexOfFrom(At(Lines, k), <<"*", "/">>, 0) # -1
          /\ IndexOfFrom(At(Lines, k), <<"*", "/">>, 0)
                < IndexOfFrom(At(Lines, k), <<"/", "*">>, 0)
          /\ DiagnosticsOfLine(k) # << >>

\* opening minus closing parentheses in columns from..to
RECURSIVE Balance(_, _, _)
Balance(line, from, to) ==
    IF from > to THEN 0
    ELSE (IF At(line, from) = "(" THEN 1 ELSE IF At(line, from) = ")" THEN -1 ELSE 0)
         + Balance(line, from + 1, to)

\* the partner of the parenthesis at column open, -1 when it has none
MatchingParen(line, open) ==
    LET balanced == {c \in (open + 1)..(Len(line) - 1) :
                        At(line, c) = ")" /\ Balance(line, open, c) = 0}
    IN  IF balanced = {} THEN -1
        ELSE CHOOSE c \in balanced : \A d \in balanced : c <= d

OpenOf(line, p) == MatchCallAt(line, p).openParen

CloseOf(line, p) == MatchingParen(line, OpenOf(line, p))

CallSites(line) ==
    {p \in 0..(Len(line) - 1) :
        MatchCallAt(line, p) # NoMatch /\ CloseOf(line, p) # -1}

ArgsOf(line, p) == Slice(line, OpenOf(line, p) + 1, CloseOf(line, p))

Blank(args) == \A i \in DOMAIN args : IsSpace(args[i])

LeadingSpace(args) == args # << >> /\ IsSpace(Head(args))

TrailingSpace(args) == args # << >> /\ IsSpace(args[Len(args)])

\* the diagnostics reported at column p of line k
DiagsAt(k, p) ==
    {i \in DOMAIN diagnostics :
        diagnostics[i].range.start = [line |-> k, character |-> p]}

LineNumbers == 0..(Len(Lines) - 1)

\* C7: a call site whose arguments are not blank gets exactly one diagnostic
\* when its arguments lack a leading or a trailing blank and none otherwise;
\* the message is "Expected space before ')'" when only the trailing blank is
\* missing, "Expected space after '('" when only the leading one is, and the
\* both-sides message when both are.
C7_LintClassification ==
    lintDone =>
        \A k \in LineNumbers :
            LET line == At(Lines, k)
            IN  \A p \in CallSites(line) :
                    LET args == ArgsOf(line, p)
                        lead == LeadingSpace(args)
                        trail == TrailingSpace(args)
                        at == DiagsAt(k, p)
                    IN  ~Blank(args) =>
                          /\ Cardinality(at) = (IF lead /\ trail THEN 0 ELSE 1)
                          /\ \A i \in at :
                                /\ diagnostics[i].message = MsgBefore <=> (lead /\ ~trail)
                                /\ diagnostics[i].message = MsgAfter <=> (~lead /\ trail)
                                /\ diagnostics[i].message = MsgBoth <=> (~lead /\ ~trail)

\* f( g(f)): the outer call lacks only the trailing blank, the inner both
C7_Witness ==
    /\ lintDone
    /\ text = <<"f", "(", " ", "g", "(", "f", ")", ")">>
    /\ diagnostics = << Diagnostic(0, 0, 8, MsgBefore), Diagnostic(0, 3, 7, MsgBoth) >>

\* C8: a call site whose arguments are empty or blank gets no diagnostic.
C8_ZeroArgumentExemption ==
    lintDone =>
        \A k \in LineNumbers :
            LET line == At(Lines, k)
            IN  \A p \in CallSites(line) :
                    Blank(ArgsOf(line, p)) => DiagsAt(k, p) = {}

\* f() and f( ) on one line, linted without a diagnostic
C8_Witness ==
    /\ lintDone
    /\ text = <<"f", "(", ")", "f", "(", " ", ")">>
    /\ CallSites(At(Lines, 0)) = {0, 3}
    /\ ArgsOf(At(Lines, 0), 0) = << >> /\ ArgsOf(At(Lines, 0), 3) = <<" ">>
    /\ diagnostics = << >>

\* the call sites of the line that lie between the parentheses of call p
NestedIn(line, p) ==
    LET close == CloseOf(line, p)
    IN  {q \in CallSites(line) : OpenOf(line, p) < q /\ q < close}

\* the diagnostics a text gets at column 0 of its first line
AloneAtStart(t) ==
    LET alone == checkFunctionSpaces(t)
    IN  {d \in {alone[i] : i \in DOMAIN alone} :
            d.range.start = [line |-> 0, character |-> 0]}

\* C9: a call nested in the arguments of another is judged as its own match:
\* it gets the diagnostics its own text gets alone, moved to its column, and
\* the outer call is judged by its own arguments up to its own partner
\* parenthesis; f( g(f) ) gets one diagnostic, for g(f), and f(g( f )) one,
\* for f.
C9_NestedCallsIndependent ==
    lintDone =>
        /\ \A k \in LineNumbers :
              LET line == At(Lines, k)
              IN  \A p \in CallSites(line) :
                    LET outer == ArgsOf(line, p)
                        atOuter == DiagsAt(k, p)
                    IN  \A q \in NestedIn(line, p) :
                          LET closeInner == CloseOf(line, q)
                              alone == AloneAtStart(Slice(line, q, closeInner + 1))
                              atInner == DiagsAt(k, q)
                          IN  /\ {[message |-> diagnostics[i].message,
                                   length |-> diagnostics[i].range.end.character - q] :
                                      i \in atInner}
                                 = {[message |-> d.message,
                                     length |-> d.range.end.character] : d \in alone}
                              /\ Cardinality(atInner) = Cardinality(alone)
                              /\ atOuter = {}
                                   <=> (LeadingSpace(outer) /\ TrailingSpace(outer))
                              /\ \A i \in atOuter :
                                    diagnostics[i].range.end.character > closeInner + 1
        /\ text = <<"f", "(", " ", "g", "(", "f", ")", " ", ")">>
              => diagnostics = << Diagnostic(0, 3, 7, MsgBoth) >>
        /\ text = <<"f", "(", "g", "(", " ", "f", " ", ")", ")">>
              => diagnostics = << Diagnostic(0, 0, 9, MsgBoth) >>

\* f( g(f) ): nothing for the outer call, one diagnostic for the inner one
C9_Witness ==
    /\ lintDone
    /\ text = <<"f", "(", " ", "g", "(", "f", ")", " ", ")">>
    /\ NestedIn(At(Lines, 0), 0) = {3}
    /\ DiagsAt(0, 0) = {} /\ Cardinality(DiagsAt(0, 3)) = 1

\* C10: every diagnostic is a Warning on one line of the text; its range
\* starts at the first character of a call's identifier and ends just behind
\* that call's partner parenthesis, with start < end <= the line's length.
C10_DiagnosticRange ==
    lintDone =>
        LET lines == Lines
        IN  \A i \in DOMAIN diagnostics :
                LET d == diagnostics[i]
                    k == d.range.start.line
                    p == d.range.start.character
                    e == d.range.end.character
                IN  /\ d.severity = "Warning"
                    /\ d.range.end.line = k
                    /\ k \in 0..(Len(lines) - 1)
                    /\ LET line == At(lines, k)
                       IN  /\ p \in CallSites(line)
                           /\ e = CloseOf(line, p) + 1
                           /\ At(line, e - 1) = ")"
                           /\ 0 <= p /\ p < e /\ e <= Len(line)

\* a diagnostic on the second line whose call holds another call, so that
\* the first ')' behind the identifier is not the call's own
C10_Witness ==
    /\ lintDone
    /\ \E i \in DOMAIN diagnostics :
          LET d == diagnostics[i]
              line == At(Lines, d.range.start.line)
          IN  /\ d.range.start.line = 1
              /\ NestedIn(line, d.range.start.character) # {}
              /\ d.range.end.character = Len(line)

\* the columns of the line where a call starts whose parenthesis has no
\* partner on the line
UnclosedSites(line) ==
    {p \in 0..(Len(line) - 1) : MatchCallAt(line, p) # NoMatch /\ CloseOf(line, p) = -1}

\* the diagnostics with a range on line k, as they would be on line 0
OnLine(diags, k) ==
    {[d EXCEPT !.range.start.line = 0, !.range.end.line = 0] :
        d \in {e \in DiagnosticsOf(diags) : e.range.start.line = k}}

\* C33: in a text of calls, a call whose parenthesis has no partner on its
\* line gets no diagnostic, and every call site behind it on the line,
\* nested in it or not, is still judged by its own arguments; a line gets
\* the diagnostics it gets as a text of its own, scanned from column 0,
\* whatever the lines before it held.
C33_UnclosedCallsExempt ==
    lintDone =>
        \A k \in LineNumbers :
            LET line == At(Lines, k)
            IN  /\ \A p \in UnclosedSites(line) :
                      /\ DiagsAt(k, p) = {}
                      /\ \A q \in CallSites(line) :
                            q > p =>
                              Cardinality(DiagsAt(k, q))
                                = (IF \/ Blank(ArgsOf(line, q))
                                      \/ /\ LeadingSpace(ArgsOf(line, q))
                                         /\ TrailingSpace(ArgsOf(line, q))
                                   THEN 0 ELSE 1)
                /\ OnLine(diagnostics, k) = OnLine(checkFunctionSpaces(line), 0)

\* f(g(f) and, on the next line, g(f): the unclosed f gets nothing, the g(f)
\* nested in it and the g(f) at column 0 of the second line one diagnostic
\* each
C33_Witness ==
    /\ lintDone
    /\ text = <<"f", "(", "g", "(", "f", ")", "\n", "g", "(", "f", ")">>
    /\ UnclosedSites(At(Lines, 0)) = {0}
    /\ diagnostics = << Diagnostic(0, 2, 6, MsgBoth), Diagnostic(1, 0, 4, MsgBoth) >>

====
